---- MODULE Spec2Model ----
(***************************************************************************)
(* Requisite Satisfaction Evaluator of the handbook scraper                *)
(* (scrapers/units/requisite_checker.go).                                  *)
(*                                                                         *)
(* A CompressedContainer is a record                                       *)
(*   [Relationship, Units, Containers]                                     *)
(* with Units a sequence of CompressedUnit records [UnitCode, UnitNumber]  *)
(* and Containers a sequence of CompressedContainer.  A message (a Go      *)
(* string built by repeated +=) is the sequence of the pieces appended to  *)
(* it, in order; an error is the chain of fmt.Errorf wrappers, outermost   *)
(* first, and the empty chain is nil.                                      *)
(*                                                                         *)
(* The module also holds the Curriculum Structure Builder                  *)
(* (common.ParseCurriculum) and the Requisite Compressor                   *)
(* (compressRequisites); `document` is the raw document they read and      *)
(* `parsed` what the builder returned.  Around them it holds the server:   *)
(* units.Scrape on a fetched page, the check handler with the handbook     *)
(* cache (`cache`, `responses`), and concurrent requests on the shared     *)
(* collector (`collector`, `requests`).                                    *)
(***************************************************************************)
EXTENDS Naturals, Sequences, FiniteSets

VARIABLES unitData, completedUnits, call, document, parsed,
          cache, collector, requests, responses

vars == <<unitData, completedUnits, call, document, parsed,
          cache, collector, requests, responses>>

\* The state of the server around the three operations: the handbook
\* cache, the callbacks of the shared collector, the requests in progress
\* and the responses sent.
serverVars == <<cache, collector, requests, responses>>

\* The collector shared by every request: its OnHTML callbacks in the
\* order they were registered, and the URLs it has visited (a collector
\* refuses a URL it has already visited).
Collector(htmlCallbacks, visited) ==
    [htmlCallbacks |-> htmlCallbacks, visited |-> visited]

\* A server that has just started: nothing cached, no OnHTML callback
\* registered, no page visited, no request received.
InitServer ==
    /\ cache = <<>>
    /\ collector = Collector(<<>>, {})
    /\ requests = <<>>
    /\ responses = <<>>

----------------------------------------------------------------------------
(* Bounds of the checked input space. *)

\* Largest weight (containers + unit entries) of a container tree in SpecC.
MaxContainerSize == 6

\* Largest weight (requisites + containers + unit entries) of a requisite
\* list in Spec.
MaxSize == 5

\* Largest weight of a requisite list in SpecL.
MaxListSize == 6

\* Unit codes occurring in requisites and in completed-unit lists.
Codes == {"FIT1045", "FIT2004"}

\* Relationship labels: the two the evaluator knows and one it does not.
Relationships == {"AND", "OR", "XOR"}

\* Requisite type labels: the two the evaluator knows and one it does not.
RequisiteTypes == {"Prerequisite", "Prohibition", "Corequisite"}

----------------------------------------------------------------------------
(* Small sequence helpers. *)

RECURSIVE FlattenPrepending(_)
\* Flatten as if each batch were put in front of what was collected so far.
FlattenPrepending(ss) ==
    IF ss = <<>> THEN <<>> ELSE FlattenPrepending(Tail(ss)) \o Head(ss)

RECURSIVE Flatten(_)
\* Concatenation of a sequence of sequences (append(xs, ys...) in a loop).
Flatten(ss) == IF ss = <<>> THEN <<>> ELSE Head(ss) \o Flatten(Tail(ss))

----------------------------------------------------------------------------
(* utils.ExtractUnitNumber: the digits of a unit code.  Codes are opaque   *)
(* here, so the digits are tabulated for the codes of the model.           *)

ExtractUnitNumber(code) ==
    CASE code = "FIT1045" -> "1045"
      [] code = "FIT2004" -> "2004"
      [] OTHER -> ""

CompressedUnit(code) == [UnitCode |-> code, UnitNumber |-> ExtractUnitNumber(code)]

\* common.Unit as the evaluator reads it: only Code is compared.
CompletedUnit(code) == [Code |-> code]

----------------------------------------------------------------------------
(* The evaluator. *)

NoError == <<>>

Result(met, messages, err) == [met |-> met, messages |-> messages, err |-> err]

\* fmt.Errorf("<text>: %w", err)
Wrap(text, err) == <<text>> \o err

\* isUnitCompleted comparing the codes without regard to case
\* (strings.EqualFold for ==).
isUnitCompletedFoldCase(unit, completed) ==
    LET Upper(code) == IF code = "fit1045" THEN "FIT1045" ELSE code IN
    \E i \in 1..Len(completed) : Upper(completed[i].Code) = Upper(unit.UnitCode)

\* isUnitCompleted returning from the first iteration of its loop: only
\* the first completed unit is compared.
isUnitCompletedFirstOnly(unit, completed) ==
    Len(completed) > 0 /\ completed[1].Code = unit.UnitCode

isUnitCompleted(unit, completed) ==
    \E i \in 1..Len(completed) : completed[i].Code = unit.UnitCode

RECURSIVE JoinFromTrailing(_, _, _)
\* JoinFrom with the separator test "i < len" for "i < len-1": a separator
\* after the last unit too.
JoinFromTrailing(mentionedUnits, sep, i) ==
    IF i > Len(mentionedUnits) THEN <<>>
    ELSE <<mentionedUnits[i], sep>> \o JoinFromTrailing(mentionedUnits, sep, i + 1)

RECURSIVE JoinFrom(_, _, _)
\* The loop "message += unit; if i < len-1 { message += sep }" from index i.
JoinFrom(mentionedUnits, sep, i) ==
    IF i > Len(mentionedUnits) THEN <<>>
    ELSE <<mentionedUnits[i]>>
         \o (IF i < Len(mentionedUnits) THEN <<sep>> ELSE <<>>)
         \o JoinFrom(mentionedUnits, sep, i + 1)

\* var message string; message += prefix; then the joining loop.
BuildMessage(prefix, mentionedUnits, sep) ==
    <<prefix>> \o JoinFrom(mentionedUnits, sep, 1)

\* MentionedUnits as if an AND prohibition needed the whole group: completed
\* units are collected only when every unit of the container is completed.
MentionedUnitsWholeGroup(units, completed, wanted) ==
    LET sel == SelectSeq(units, LAMBDA u : isUnitCompleted(u, completed) = wanted)
    IN  IF wanted /\ Len(sel) # Len(units) THEN <<>>
        ELSE [i \in 1..Len(sel) |-> sel[i].UnitCode]

RECURSIVE MentionedUnits(_, _, _)
\* The loop "if isUnitCompleted(unit, completedUnits) == wanted
\* { mentionedUnits = append(mentionedUnits, unit.UnitCode) }".
MentionedUnits(units, completed, wanted) ==
    IF units = <<>> THEN <<>>
    ELSE (IF isUnitCompleted(Head(units), completed) = wanted
          THEN <<Head(units).UnitCode>> ELSE <<>>)
         \o MentionedUnits(Tail(units), completed, wanted)

\* IsEmptyContainer with the first comparison flipped.
IsEmptyContainerFlipped(container) ==
    Len(container.Units) # 0 /\ Len(container.Containers) = 0

\* "len(container.Units) == 0 && len(container.Containers) == 0", the first
\* test of checkAndLogic and of checkOrLogic.
IsEmptyContainer(container) ==
    Len(container.Units) = 0 /\ Len(container.Containers) = 0

RECURSIVE checkContainer(_, _, _)
RECURSIVE checkContainerLogic(_, _, _)
RECURSIVE checkAndLogic(_, _, _)
RECURSIVE checkOrLogic(_, _, _)

\* Results of checkContainer([]CompressedContainer{sub}, ...) for each
\* nested container, in container order.
SubResults(container, completed, isProhibition) ==
    [i \in 1..Len(container.Containers) |->
        checkContainer(<<container.Containers[i]>>, completed, isProhibition)]

\* Index of the first result with an error, 0 if none.
FirstError(results) ==
    IF \E i \in 1..Len(results) : results[i].err # NoError
    THEN CHOOSE i \in 1..Len(results) :
            /\ results[i].err # NoError
            /\ \A j \in 1..(i - 1) : results[j].err = NoError
    ELSE 0

\* UnmetMessages with the test "if met" for "if !met".
UnmetMessagesInverted(results) ==
    Flatten([i \in 1..Len(results) |->
                IF results[i].met THEN results[i].messages ELSE <<>>])

\* The "if !met { unmet = append(unmet, messages...) }" accumulation.
UnmetMessages(results) ==
    Flatten([i \in 1..Len(results) |->
                IF results[i].met THEN <<>> ELSE results[i].messages])

\* checkAndLogic with the closing "return true" written as in checkOrLogic:
\* "return isProhibition".
checkAndLogicDefaultFlag(container, completed, isProhibition) ==
    IF IsEmptyContainer(container)
    THEN Result(TRUE, <<>>, NoError)
    ELSE
    LET mentionedUnits ==
            MentionedUnits(container.Units, completed, isProhibition)
        subs == SubResults(container, completed, isProhibition)
        e    == FirstError(subs)
        unmetRequisites ==
            UnmetMessages(subs)
            \o (IF Len(mentionedUnits) > 0
                THEN <<BuildMessage(IF ~isProhibition THEN "Requires: "
                                    ELSE "Prohibited by: ",
                                    mentionedUnits, " and ")>>
                ELSE <<>>)
    IN  IF e # 0
        THEN Result(FALSE, <<>>, Wrap("error checking subcontainer", subs[e].err))
        ELSE IF Len(unmetRequisites) > 0
        THEN Result(FALSE, unmetRequisites, NoError)
        ELSE Result(isProhibition, <<>>, NoError)

\* checkAndLogic with the container's own message built before the loop
\* over the nested containers, so that it heads the list.
checkAndLogicOwnFirst(container, completed, isProhibition) ==
    IF IsEmptyContainer(container)
    THEN Result(TRUE, <<>>, NoError)
    ELSE
    LET mentionedUnits ==
            MentionedUnits(container.Units, completed, isProhibition)
        subs == SubResults(container, completed, isProhibition)
        e    == FirstError(subs)
        unmetRequisites ==
            (IF Len(mentionedUnits) > 0
             THEN <<BuildMessage(IF ~isProhibition THEN "Requires: "
                                 ELSE "Prohibited by: ",
                                 mentionedUnits, " and ")>>
             ELSE <<>>)
            \o UnmetMessages(subs)
    IN  IF e # 0
        THEN Result(FALSE, <<>>, Wrap("error checking subcontainer", subs[e].err))
        ELSE IF Len(unmetRequisites) > 0
        THEN Result(FALSE, unmetRequisites, NoError)
        ELSE Result(TRUE, <<>>, NoError)

checkAndLogic(container, completed, isProhibition) ==
    IF IsEmptyContainer(container)
    THEN Result(TRUE, <<>>, NoError)
    ELSE
    LET mentionedUnits ==
            MentionedUnits(container.Units, completed, isProhibition)
        subs == SubResults(container, completed, isProhibition)
        e    == FirstError(subs)
        unmetRequisites ==
            UnmetMessages(subs)
            \o (IF Len(mentionedUnits) > 0
                THEN <<BuildMessage(IF ~isProhibition THEN "Requires: "
                                    ELSE "Prohibited by: ",
                                    mentionedUnits, " and ")>>
                ELSE <<>>)
    IN  IF e # 0
        THEN Result(FALSE, <<>>, Wrap("error checking subcontainer", subs[e].err))
        ELSE IF Len(unmetRequisites) > 0
        THEN Result(FALSE, unmetRequisites, NoError)
        ELSE Result(TRUE, <<>>, NoError)

\* SubContainerEntries as if satisfied nested containers were not tallied.
SubContainerEntriesNone(results) == <<>>

\* Prohibition loop of checkOrLogic: "if met { mentionedUnits =
\* append(mentionedUnits, "sub-container") }" for each nested container.
SubContainerEntries(results) ==
    Flatten([i \in 1..Len(results) |->
                IF results[i].met THEN <<"sub-container">> ELSE <<>>])

\* OrSubMessages as if the first loop over the nested containers had kept
\* their messages too: every nested message twice.
OrSubMessagesTwice(results) ==
    UnmetMessages(results) \o Flatten([i \in 1..Len(results) |-> results[i].messages])

\* OrSubMessages as if the last loop of checkOrLogic were missing: the
\* messages of the nested containers are not collected.
OrSubMessagesDropped(results) == <<>>

\* Last loop of checkOrLogic: "_, messages, _ := checkContainer(...)",
\* appended whatever met and err are.
OrSubMessages(results) ==
    Flatten([i \in 1..Len(results) |-> results[i].messages])

\* FirstDecisive without "if err != nil { return ... }": errors of nested
\* containers are passed over.
FirstDecisiveIgnoringErrors(results) ==
    IF \E i \in 1..Len(results) : results[i].met
    THEN CHOOSE i \in 1..Len(results) :
            results[i].met /\ \A j \in 1..(i - 1) : ~results[j].met
    ELSE 0

\* FirstDecisive without "if met { return true, ... }": a satisfied nested
\* container does not end the loop.
FirstDecisiveIgnoringMet(results) == FirstError(results)

\* Index of the first nested result that ends the prerequisite loop of
\* checkOrLogic (an error or a met container), 0 if none.
FirstDecisive(results) ==
    IF \E i \in 1..Len(results) : results[i].err # NoError \/ results[i].met
    THEN CHOOSE i \in 1..Len(results) :
            /\ results[i].err # NoError \/ results[i].met
            /\ \A j \in 1..(i - 1) : results[j].err = NoError /\ ~results[j].met
    ELSE 0

checkOrLogic(container, completed, isProhibition) ==
    IF IsEmptyContainer(container)
    THEN Result(TRUE, <<>>, NoError)
    ELSE
    LET subs == SubResults(container, completed, isProhibition)
        subMessages == OrSubMessages(subs)
    IN  IF ~isProhibition
        THEN
            IF \E i \in 1..Len(container.Units) :
                    isUnitCompleted(container.Units[i], completed)
            THEN Result(TRUE, <<>>, NoError)
            ELSE
            LET d == FirstDecisive(subs)
                mentionedUnits ==
                    MentionedUnits(container.Units, completed, FALSE)
                unmetRequisites ==
                    (IF Len(mentionedUnits) > 0
                     THEN <<BuildMessage("Requires one of: ", mentionedUnits, " or ")>>
                     ELSE <<>>)
                    \o subMessages
            IN  IF d # 0 /\ subs[d].err # NoError
                THEN Result(FALSE, <<>>,
                            Wrap("error checking subcontainer", subs[d].err))
                ELSE IF d # 0
                THEN Result(TRUE, <<>>, NoError)
                ELSE IF Len(unmetRequisites) > 0
                THEN Result(FALSE, unmetRequisites, NoError)
                ELSE Result(isProhibition, <<>>, NoError)
        ELSE
            LET e == FirstError(subs)
                mentionedUnits ==
                    MentionedUnits(container.Units, completed, TRUE)
                    \o SubContainerEntries(subs)
                unmetRequisites ==
                    (IF Len(mentionedUnits) > 0
                     THEN <<BuildMessage("Prohibited by one of: ", mentionedUnits, " or ")>>
                     ELSE <<>>)
                    \o subMessages
            IN  IF e # 0
                THEN Result(FALSE, <<>>,
                            Wrap("error checking subcontainer", subs[e].err))
                ELSE IF Len(unmetRequisites) > 0
                THEN Result(FALSE, unmetRequisites, NoError)
                ELSE Result(isProhibition, <<>>, NoError)

checkContainerLogic(container, completed, isProhibition) ==
    IF container.Relationship = "AND"
    THEN checkAndLogic(container, completed, isProhibition)
    ELSE IF container.Relationship = "OR"
    THEN checkOrLogic(container, completed, isProhibition)
    ELSE Result(FALSE, <<>>, <<"unknown relationship type", container.Relationship>>)

checkContainer(containers, completed, isProhibition) ==
    IF Len(containers) = 0
    THEN Result(TRUE, <<>>, NoError)
    ELSE
    LET results == [i \in 1..Len(containers) |->
                        checkContainerLogic(containers[i], completed, isProhibition)]
        e == FirstError(results)
        unmetRequisites == UnmetMessages(results)
    IN  IF e # 0
        THEN Result(FALSE, <<>>, Wrap("error checking container logic", results[e].err))
        ELSE IF Len(unmetRequisites) > 0
        THEN Result(FALSE, unmetRequisites, NoError)
        ELSE Result(TRUE, <<>>, NoError)

\* RequisiteResult with the Prohibition branch pasted from the Prerequisite
\* branch: isProhibition is false in both.
RequisiteResultPasted(requisite, completed) ==
    IF requisite.RequisiteType \in {"Prerequisite", "Prohibition"}
    THEN LET r == checkContainer(requisite.Containers, completed, FALSE)
         IN  IF r.err # NoError
             THEN Result(FALSE, <<>>,
                         Wrap("error checking prerequisite container", r.err))
             ELSE r
    ELSE Result(TRUE, <<>>, NoError)

\* One iteration of CheckRequisites' loop: the requisite's verdict, its
\* messages and its (wrapped) error; other requisite types are skipped.
\* RequisiteResult as if every requisite that is not a Prohibition were
\* checked as a Prerequisite.
RequisiteResultAnyType(requisite, completed) ==
    LET isProhibition == requisite.RequisiteType = "Prohibition"
        r == checkContainer(requisite.Containers, completed, isProhibition)
    IN  IF r.err # NoError
        THEN Result(FALSE, <<>>,
                    Wrap(IF isProhibition
                         THEN "error checking prohibition container"
                         ELSE "error checking prerequisite container", r.err))
        ELSE r

RequisiteResult(requisite, completed) ==
    IF requisite.RequisiteType = "Prerequisite"
    THEN LET r == checkContainer(requisite.Containers, completed, FALSE)
         IN  IF r.err # NoError
             THEN Result(FALSE, <<>>,
                         Wrap("error checking prerequisite container", r.err))
             ELSE r
    ELSE IF requisite.RequisiteType = "Prohibition"
    THEN LET r == checkContainer(requisite.Containers, completed, TRUE)
         IN  IF r.err # NoError
             THEN Result(FALSE, <<>>,
                         Wrap("error checking prohibition container", r.err))
             ELSE r
    ELSE Result(TRUE, <<>>, NoError)

\* The requisites are walked in order; the first error ends the call.
CheckRequisites(data, completed) ==
    IF Len(data.Requisites) = 0
    THEN Result(TRUE, <<>>, NoError)
    ELSE
    LET results == [i \in 1..Len(data.Requisites) |->
                        RequisiteResult(data.Requisites[i], completed)]
        e == FirstError(results)
        unmetRequisites == UnmetMessages(results)
    IN  IF e # 0
        THEN Result(FALSE, <<>>, results[e].err)
        ELSE IF Len(unmetRequisites) > 0
        THEN Result(FALSE, unmetRequisites, NoError)
        ELSE Result(TRUE, <<>>, NoError)

----------------------------------------------------------------------------
(* Building the evaluator's input.  compressRequisites / compressContainer *)
(* build the CompressedRequisite forest by appending: a requisite to the   *)
(* list, a container to its parent's Containers, a unit to its container's *)
(* Units, the units of a container before its nested containers.  The      *)
(* build actions below append in that same order, so every forest up to a  *)
(* weight is built, each in one way.  The weight of a forest is the number *)
(* of its requisites, containers and unit entries.                         *)

CompressedRequisite(type, containers) ==
    [RequisiteType |-> type, Containers |-> containers]

CompressedContainer(relationship) ==
    [Relationship |-> relationship, Units |-> <<>>, Containers |-> <<>>]

\* UnitData as the evaluator reads it: only Requisites.
UnitData(requisites) == [Requisites |-> requisites]

RECURSIVE ForestWeight(_)
ForestWeight(containers) ==
    IF containers = <<>> THEN 0
    ELSE 1 + Len(Head(containers).Units) + ForestWeight(Head(containers).Containers)
         + ForestWeight(Tail(containers))

RECURSIVE Weight(_)
Weight(requisites) ==
    IF requisites = <<>> THEN 0
    ELSE 1 + ForestWeight(Head(requisites).Containers) + Weight(Tail(requisites))

RECURSIVE OpenDepth(_)
\* Number of containers on the path from the last top-level container down
\* through each last nested container: the containers still being built.
OpenDepth(containers) ==
    IF containers = <<>> THEN 0
    ELSE 1 + OpenDepth(containers[Len(containers)].Containers)

RECURSIVE AppendContainer(_, _, _)
\* containers with c appended to the list d levels down that path.
AppendContainer(containers, d, c) ==
    IF d = 0 THEN Append(containers, c)
    ELSE [containers EXCEPT ![Len(containers)] =
            [@ EXCEPT !.Containers = AppendContainer(@, d - 1, c)]]

RECURSIVE AppendUnit(_, _)
\* containers with unit u appended to the container at the end of that path.
AppendUnit(containers, u) ==
    LET last == containers[Len(containers)] IN
    [containers EXCEPT ![Len(containers)] =
        IF last.Containers = <<>>
        THEN [@ EXCEPT !.Units = Append(@, u)]
        ELSE [@ EXCEPT !.Containers = AppendUnit(@, u)]]

\* Completed-unit lists: every list of distinct codes, in every order.
CompletedLists ==
    { [i \in 1..Len(s) |-> CompletedUnit(s[i])] :
        s \in { t \in UNION { [1..k -> Codes] : k \in 0..Cardinality(Codes) } :
                  \A i, j \in 1..Len(t) : i # j => t[i] # t[j] } }

----------------------------------------------------------------------------
(* The state machine.  A unit's requisites are built (scraped and          *)
(* compressed); then a request arrives with a student's completed units    *)
(* and calls the evaluator on them.  `call` keeps what was called and what *)
(* it returned; a behaviour ends with that one call.                       *)

NoContainers == <<>>

Call(op, containers, isProhibition, r) ==
    [op |-> op, containers |-> containers, isProhibition |-> isProhibition,
     met |-> r.met, messages |-> r.messages, err |-> r.err]

NoCall == Call("none", NoContainers, FALSE, Result(FALSE, <<>>, NoError))

\* No raw document has been fetched, and nothing has been built from one.
NoDocument == [kind |-> "absent"]

NotParsed == [outcome |-> "none"]

Init ==
    /\ unitData = UnitData(<<>>)
    /\ completedUnits = <<>>
    /\ call = NoCall
    /\ document = NoDocument
    /\ parsed = NotParsed
    /\ InitServer

\* compressRequisites appends the next requisite.
AddRequisite(limit) ==
    /\ call = NoCall
    /\ Weight(unitData.Requisites) < limit
    /\ \E t \in RequisiteTypes :
          unitData' = UnitData(Append(unitData.Requisites, CompressedRequisite(t, <<>>)))
    /\ UNCHANGED <<completedUnits, call, document, parsed, serverVars>>

\* compressRequisites / compressContainer appends the next container, to the
\* last requisite (level 0) or to a container still being built (level d),
\* at a level from lo to hi.
AddContainer(rels, lo, hi, limit) ==
    LET n == Len(unitData.Requisites) IN
    /\ call = NoCall
    /\ n > 0
    /\ Weight(unitData.Requisites) < limit
    /\ \E r \in rels, d \in lo..hi :
          /\ d <= OpenDepth(unitData.Requisites[n].Containers)
          /\ unitData' = [unitData EXCEPT !.Requisites[n].Containers =
                              AppendContainer(@, d, CompressedContainer(r))]
    /\ UNCHANGED <<completedUnits, call, document, parsed, serverVars>>

\* compressContainer appends the next unit to the container it is building,
\* before any of its nested containers; that container is at level hi or
\* above.
AddUnit(hi, limit) ==
    LET n == Len(unitData.Requisites) IN
    /\ call = NoCall
    /\ n > 0
    /\ Weight(unitData.Requisites) < limit
    /\ OpenDepth(unitData.Requisites[n].Containers) > 0
    /\ OpenDepth(unitData.Requisites[n].Containers) - 1 <= hi
    /\ \E code \in Codes :
          unitData' = [unitData EXCEPT !.Requisites[n].Containers =
                           AppendUnit(@, CompressedUnit(code))]
    /\ UNCHANGED <<completedUnits, call, document, parsed, serverVars>>

\* A request calls CheckRequisites on the unit and its completed list.
CheckRequisitesCall ==
    /\ call = NoCall
    /\ \E completed \in CompletedLists :
          /\ completedUnits' = completed
          /\ call' = Call("CheckRequisites", NoContainers, FALSE,
                          CheckRequisites(unitData, completed))
    /\ UNCHANGED <<unitData, document, parsed, serverVars>>

\* CheckRequisites' call of checkContainer for one Prerequisite or
\* Prohibition requisite.
CheckContainerCall ==
    /\ call = NoCall
    /\ \E completed \in CompletedLists, i \in 1..Len(unitData.Requisites) :
          LET requisite == unitData.Requisites[i]
              isProhibition == requisite.RequisiteType = "Prohibition"
          IN  /\ requisite.RequisiteType \in {"Prerequisite", "Prohibition"}
              /\ completedUnits' = completed
              /\ call' = Call("checkContainer", requisite.Containers, isProhibition,
                              checkContainer(requisite.Containers, completed,
                                             isProhibition))
    /\ UNCHANGED <<unitData, document, parsed, serverVars>>

\* checkContainer's call of checkContainerLogic for one top-level container,
\* in the mode of its requisite.
CheckContainerLogicCall ==
    /\ call = NoCall
    /\ \E completed \in CompletedLists, i \in 1..Len(unitData.Requisites) :
          LET requisite == unitData.Requisites[i]
              isProhibition == requisite.RequisiteType = "Prohibition"
          IN  /\ requisite.RequisiteType \in {"Prerequisite", "Prohibition"}
              /\ \E j \in 1..Len(requisite.Containers) :
                    /\ completedUnits' = completed
                    /\ call' = Call("checkContainerLogic",
                                    <<requisite.Containers[j]>>, isProhibition,
                                    checkContainerLogic(requisite.Containers[j],
                                                        completed, isProhibition))
    /\ UNCHANGED <<unitData, document, parsed, serverVars>>

Next ==
    \/ AddRequisite(MaxSize)
    \/ AddContainer(Relationships, 0, MaxSize, MaxSize)
    \/ AddUnit(MaxSize, MaxSize)
    \/ CheckRequisitesCall
    \/ CheckContainerLogicCall

\* Every requisite list up to weight MaxSize, unknown labels included.
Spec == Init /\ [][Next]_vars

(* The same evaluator on a single requisite holding a single top-level     *)
(* container of known relationships, which may be larger: the              *)
(* container-level behaviour.                                              *)

InitC ==
    /\ unitData \in { UnitData(<<CompressedRequisite(t, <<CompressedContainer(r)>>)>>) :
                        t \in {"Prerequisite", "Prohibition"}, r \in {"AND", "OR"} }
    /\ completedUnits = <<>>
    /\ call = NoCall
    /\ document = NoDocument
    /\ parsed = NotParsed
    /\ InitServer

NextC ==
    \/ AddContainer({"AND", "OR"}, 1, MaxContainerSize, MaxContainerSize + 1)
    \/ AddUnit(MaxContainerSize, MaxContainerSize + 1)
    \/ CheckContainerLogicCall

SpecC == InitC /\ [][NextC]_vars

(* The same evaluator on requisite lists of known relationships whose      *)
(* top-level containers hold units only, which may be longer: the          *)
(* list-level behaviour.                                                   *)

NextL ==
    \/ AddRequisite(MaxListSize)
    \/ AddContainer({"AND", "OR"}, 0, 0, MaxListSize)
    \/ AddUnit(0, MaxListSize)
    \/ CheckRequisitesCall
    \/ CheckContainerCall

SpecL == Init /\ [][NextL]_vars

(* Every entry point of the evaluator on every requisite list up to weight *)
(* MaxSize, unknown labels included.                                       *)
NextV ==
    \/ AddRequisite(MaxSize)
    \/ AddContainer(Relationships, 0, MaxSize, MaxSize)
    \/ AddUnit(MaxSize, MaxSize)
    \/ CheckRequisitesCall
    \/ CheckContainerCall
    \/ CheckContainerLogicCall

SpecV == Init /\ [][NextV]_vars

(* The check request as the handler receives it: the completed units are   *)
(* whatever list of common.Unit the request body binds to, with the other  *)
(* fields of a unit, repeated units and codes in another case.             *)

\* common.Unit with its code and one of its other fields.
Unit(code, name) == [Code |-> code, Name |-> name]

\* The units of a request: each code and a code in lower case, and a unit
\* that differs from another in its name only.
RequestUnits ==
    { Unit(code, "") : code \in Codes \cup {"fit1045"} }
    \cup { Unit("FIT2004", "Algorithms") }

\* Largest number of completed units in a check request of SpecE.
MaxCompleted == 3

\* Largest weight of a requisite list in SpecE.
MaxCheckedSize == 4

RequestLists == UNION { [1..k -> RequestUnits] : k \in 0..MaxCompleted }

\* UnitCheckHandler: the request's completed units are bound and
\* CheckRequisites is called on them.
UnitCheckCall ==
    /\ call = NoCall
    /\ \E completed \in RequestLists :
          /\ completedUnits' = completed
          /\ call' = Call("CheckRequisites", NoContainers, FALSE,
                          CheckRequisites(unitData, completed))
    /\ UNCHANGED <<unitData, document, parsed, serverVars>>

NextE ==
    \/ AddRequisite(MaxCheckedSize)
    \/ AddContainer({"AND", "OR"}, 0, MaxCheckedSize, MaxCheckedSize)
    \/ AddUnit(MaxCheckedSize, MaxCheckedSize)
    \/ UnitCheckCall

SpecE == Init /\ [][NextE]_vars

----------------------------------------------------------------------------
(* The raw document.  A decoded JSON value (Go's interface{}) is a record  *)
(* tagged by kind: a string, an array ([]interface{}), an object           *)
(* (map[string]interface{}), a number, or nil; Absent stands for what a    *)
(* map lookup gives for a key the map does not hold.  A Go string is the   *)
(* sequence of its pieces: the characters of a credit-points string, the   *)
(* one word of a connector label; the empty sequence is "".                *)

Str(s) == [kind |-> "string", chars |-> s]

Arr(elems) == [kind |-> "array", elems |-> elems]

Obj(fields) == [kind |-> "object", fields |-> fields]

Num(n) == [kind |-> "number", n |-> n]

Null == [kind |-> "nil"]

Absent == [kind |-> "absent"]

\* m[key] on a map[string]interface{}.
Field(m, key) == IF key \in DOMAIN m THEN m[key] ELSE Absent

\* "s, _ := v.(string)": the string, or "" when v is not a string.
AsString(v) == IF v.kind = "string" THEN v.chars ELSE <<>>

----------------------------------------------------------------------------
(* utils.StringToInt: the first run of digits of the string, as a number   *)
(* (regexp "[0-9]+", FindString, strconv.Atoi with the error dropped); 0   *)
(* when the string has no digit.  The strings of the model are short, so   *)
(* Atoi's range error is out of reach.                                     *)

DigitChars == <<"0", "1", "2", "3", "4", "5", "6", "7", "8", "9">>

IsDigit(c) == \E i \in 1..Len(DigitChars) : DigitChars[i] = c

DigitValue(c) == (CHOOSE i \in 1..Len(DigitChars) : DigitChars[i] = c) - 1

RECURSIVE DropNonDigits(_)
DropNonDigits(s) ==
    IF s = <<>> \/ IsDigit(Head(s)) THEN s ELSE DropNonDigits(Tail(s))

RECURSIVE TakeDigits(_)
TakeDigits(s) ==
    IF s = <<>> \/ ~IsDigit(Head(s)) THEN <<>>
    ELSE <<Head(s)>> \o TakeDigits(Tail(s))

\* re.FindString(s) for re = [0-9]+: the leftmost, longest run of digits.
FindString(s) == TakeDigits(DropNonDigits(s))

RECURSIVE Atoi(_, _)
\* strconv.Atoi from the accumulated value acc; 0 for "".
Atoi(numStr, acc) ==
    IF numStr = <<>> THEN acc
    ELSE Atoi(Tail(numStr), 10 * acc + DigitValue(Head(numStr)))

StringToInt(s) == Atoi(FindString(s), 0)

----------------------------------------------------------------------------
(* The Curriculum Structure Builder.  Of an AcademicItem, a Container and  *)
(* a Part the model keeps the fields the connector and credit rules read   *)
(* or write; titles, descriptions and URLs are copied through by the code  *)
(* and left out.  A type assertion without the ", ok" form panics when it  *)
(* fails: a result carries `panicked`, and a panic ends the whole build.   *)

AcademicItem(code, creditPoints) == [Code |-> code, CreditPoints |-> creditPoints]

RECURSIVE parseItemsFrom(_)
\* The loop of parseItems over the entries: an entry that is not an object
\* is skipped.
parseItemsFrom(itemsSlice) ==
    IF itemsSlice = <<>> THEN <<>>
    ELSE LET itemInterface == Head(itemsSlice) IN
         (IF itemInterface.kind # "object" THEN <<>>
          ELSE LET itemMap == itemInterface.fields IN
               <<AcademicItem(
                    AsString(Field(itemMap, "academic_item_code")),
                    StringToInt(AsString(Field(itemMap, "academic_item_credit_points"))))>>)
         \o parseItemsFrom(Tail(itemsSlice))

\* parseItems: no item when itemsData is not an array; its error is always
\* nil.
parseItems(itemsData) ==
    IF itemsData.kind # "array" THEN <<>> ELSE parseItemsFrom(itemsData.elems)

Panicked == [panicked |-> TRUE]

ContainersResult(containers, parentConnector) ==
    [panicked |-> FALSE, containers |-> containers, parentConnector |-> parentConnector]

\* InferConnector reading the last child for the first.
InferConnectorLastChild(connector, creditPoints, containers, items) ==
    IF \/ Len(containers) > 0
          /\ containers[Len(containers)].CreditPointsRequired = creditPoints
       \/ Len(items) > 0 /\ items[Len(items)].CreditPoints = creditPoints
    THEN <<"OR">>
    ELSE connector

\* The connector a node gets from its children: "OR" when the first nested
\* container, or the first item, carries the node's own credit points.
InferConnector(connector, creditPoints, containers, items) ==
    IF \/ Len(containers) > 0 /\ containers[1].CreditPointsRequired = creditPoints
       \/ Len(items) > 0 /\ items[1].CreditPoints = creditPoints
    THEN <<"OR">>
    ELSE connector

RECURSIVE parseContainers(_)
RECURSIVE parseContainersFrom(_, _, _)

\* One iteration of parseContainers' loop on an entry that is an object.
parseContainer(containerMap) ==
    LET creditPoints == StringToInt(AsString(Field(containerMap, "credit_points")))
        conn == Field(containerMap, "parent_connector")
        relationshipsRaw == Field(containerMap, "relationship")
        items == IF relationshipsRaw.kind # "absent"
                 THEN parseItems(relationshipsRaw) ELSE <<>>
        nestedContainersRaw == Field(containerMap, "container")
        hasNested == nestedContainersRaw.kind \notin {"absent", "nil"}
        nested == IF hasNested THEN parseContainers(nestedContainersRaw)
                  ELSE ContainersResult(<<>>, <<>>)
    IN  IF conn.kind # "object" THEN Panicked
        ELSE IF Field(conn.fields, "value").kind # "string" THEN Panicked
        ELSE IF nested.panicked THEN Panicked
        ELSE [panicked |-> FALSE,
              parentConnector |-> Field(conn.fields, "value").chars,
              container |->
                [CreditPointsRequired |-> creditPoints,
                 AcademicItems |-> items,
                 Containers |-> nested.containers,
                 Connector |->
                    InferConnector(IF nested.parentConnector # <<>>
                                   THEN nested.parentConnector ELSE <<"AND">>,
                                   creditPoints, nested.containers, items)]]

\* parseContainersFrom keeping the parent connector of the first container
\* read, not of the last.
parseContainersFromFirstLabel(containerSlice, containers, parentConnector) ==
    IF containerSlice = <<>> THEN ContainersResult(containers, parentConnector)
    ELSE LET containerInterface == Head(containerSlice) IN
         IF containerInterface.kind # "object"
         THEN parseContainersFrom(Tail(containerSlice), containers, parentConnector)
         ELSE LET r == parseContainer(containerInterface.fields) IN
              IF r.panicked THEN Panicked
              ELSE parseContainersFrom(Tail(containerSlice),
                                       Append(containers, r.container),
                                       IF Len(containers) > 0 THEN parentConnector
                                       ELSE r.parentConnector)

\* The loop of parseContainers from the entries still to read, with the
\* containers and the parentConnector collected so far.
parseContainersFrom(containerSlice, containers, parentConnector) ==
    IF containerSlice = <<>> THEN ContainersResult(containers, parentConnector)
    ELSE LET containerInterface == Head(containerSlice) IN
         IF containerInterface.kind # "object"
         THEN parseContainersFrom(Tail(containerSlice), containers, parentConnector)
         ELSE LET r == parseContainer(containerInterface.fields) IN
              IF r.panicked THEN Panicked
              ELSE parseContainersFrom(Tail(containerSlice),
                                       Append(containers, r.container),
                                       r.parentConnector)

parseContainers(containerData) ==
    IF containerData.kind # "array" THEN ContainersResult(<<>>, <<>>)
    ELSE parseContainersFrom(containerData.elems, <<>>, <<>>)

\* utils.GetTypedValue[map[string]interface{}](data, "...curriculumStructure"):
\* the object found at the path, or the zero value (a nil map) when the
\* path is missing or what it holds is not an object.  `document` is what the
\* path holds.
GetTypedValue(data) == IF data.kind = "object" THEN data.fields ELSE <<>>

\* NormalizeCredit as if the reset were left out.
NormalizeCreditKept(creditPoints, totalCreditPoints) == creditPoints

\* "if part.CreditPointsRequired == curriculum.TotalCreditPoints
\* { part.CreditPointsRequired = 0 }"
NormalizeCredit(creditPoints, totalCreditPoints) ==
    IF creditPoints = totalCreditPoints THEN 0 ELSE creditPoints

\* PartItems without the test "len(part.Containers) == 0".
PartItemsAlways(containers, relationshipsRaw) ==
    IF relationshipsRaw.kind # "absent" THEN parseItems(relationshipsRaw) ELSE <<>>

\* The items of a Part: read from its "relationship" list if no container
\* was parsed for it and it holds that list.
PartItems(containers, relationshipsRaw) ==
    IF Len(containers) = 0 /\ relationshipsRaw.kind # "absent"
    THEN parseItems(relationshipsRaw) ELSE <<>>

\* One iteration of ParseCurriculum's loop on an entry that is an object.
parsePart(partMap, totalCreditPoints) ==
    LET creditPoints == StringToInt(AsString(Field(partMap, "credit_points")))
        orderRaw == Field(partMap, "order")
        containersRaw == Field(partMap, "container")
        parsedContainers ==
            IF containersRaw.kind # "absent" THEN parseContainers(containersRaw)
            ELSE ContainersResult(<<>>, <<>>)
        relationshipsRaw == Field(partMap, "relationship")
    IN  IF orderRaw.kind # "string" THEN Panicked
        ELSE IF parsedContainers.panicked THEN Panicked
        ELSE
        LET containers == parsedContainers.containers
            items == PartItems(containers, relationshipsRaw)
        IN  [panicked |-> FALSE,
             part |->
               [CreditPointsRequired |->
                    NormalizeCredit(creditPoints, totalCreditPoints),
                Containers |-> containers,
                AcademicItems |-> items,
                Order |-> StringToInt(orderRaw.chars),
                Connector |->
                    InferConnector(<<"AND">>, creditPoints, containers, items)]]

RECURSIVE parsePartsFrom(_, _, _)
\* The loop of ParseCurriculum from the entries still to read.
parsePartsFrom(partsData, parts, totalCreditPoints) ==
    IF partsData = <<>> THEN [panicked |-> FALSE, parts |-> parts]
    ELSE LET partInterface == Head(partsData) IN
         IF partInterface.kind # "object"
         THEN parsePartsFrom(Tail(partsData), parts, totalCreditPoints)
         ELSE LET r == parsePart(partInterface.fields, totalCreditPoints) IN
              IF r.panicked THEN Panicked
              ELSE parsePartsFrom(Tail(partsData), Append(parts, r.part),
                                  totalCreditPoints)

Curriculum(totalCreditPoints, parts) ==
    [TotalCreditPoints |-> totalCreditPoints, Parts |-> parts]

\* What a call of ParseCurriculum comes to: it returns a curriculum and a
\* nil error ("ok"), returns an error ("error"), or panics ("panic").
Parsed(outcome, curriculum, err) ==
    [outcome |-> outcome, curriculum |-> curriculum, err |-> err]

ParseCurriculum(raw) ==
    LET data == GetTypedValue(raw)
        totalCredits == Field(data, "credit_points")
        totalCreditPoints == StringToInt(AsString(totalCredits))
        partsData == Field(data, "container")
    IN  IF totalCredits.kind # "string"
        THEN Parsed("error", Curriculum(0, <<>>),
                    <<"total credit points not found or not a string">>)
        ELSE IF partsData.kind # "array"
        THEN Parsed("error", Curriculum(totalCreditPoints, <<>>),
                    <<"parts container not found or not an array">>)
        ELSE LET r == parsePartsFrom(partsData.elems, <<>>, totalCreditPoints) IN
             IF r.panicked THEN Parsed("panic", Curriculum(0, <<>>), NoError)
             ELSE Parsed("ok", Curriculum(totalCreditPoints, r.parts), NoError)

----------------------------------------------------------------------------
(* What the build leaves in the raw document.  The maps of the document    *)
(* are shared with the caller, and parseItems stores a "connector" key in  *)
(* the map it is given: the parent connector of the first entry of the     *)
(* map's "relationship" array, when that entry declares one.  The          *)
(* operators below follow the walk of ParseCurriculum and give the         *)
(* document as the call leaves it, also when the call panics part-way.     *)

\* The record after parseItems(relationshipsRaw, &containerMap).
ItemsEffect(containerMap) ==
    LET relationship == Field(containerMap, "relationship")
        first == relationship.elems[1]
        connectorMap == Field(first.fields, "parent_connector")
        connectorValue == Field(connectorMap.fields, "value")
    IN  IF /\ relationship.kind = "array"
           /\ Len(relationship.elems) > 0
           /\ first.kind = "object"
           /\ connectorMap.kind = "object"
           /\ connectorValue.kind = "string"
        THEN [k \in DOMAIN containerMap \cup {"connector"} |->
                IF k = "connector" THEN Str(connectorValue.chars)
                ELSE containerMap[k]]
        ELSE containerMap

RECURSIVE ContainersEffect(_)
RECURSIVE ContainersEffectFrom(_)

\* A container record after its iteration of parseContainers' loop.
ContainerEffect(containerMap) ==
    LET conn == Field(containerMap, "parent_connector")
        withItems == ItemsEffect(containerMap)
        nestedContainersRaw == Field(containerMap, "container")
        nested == ContainersEffect(nestedContainersRaw)
    IN  IF conn.kind # "object" \/ Field(conn.fields, "value").kind # "string"
        THEN [panicked |-> TRUE, fields |-> containerMap]
        ELSE IF nestedContainersRaw.kind \in {"absent", "nil"}
        THEN [panicked |-> FALSE, fields |-> withItems]
        ELSE [panicked |-> nested.panicked,
              fields |-> [withItems EXCEPT !["container"] = nested.data]]

\* The entries after parseContainers' loop: the walk stops at a panic.
ContainersEffectFrom(containerSlice) ==
    IF containerSlice = <<>> THEN [panicked |-> FALSE, elems |-> <<>>]
    ELSE LET containerInterface == Head(containerSlice) IN
         IF containerInterface.kind # "object"
         THEN LET rest == ContainersEffectFrom(Tail(containerSlice)) IN
              [panicked |-> rest.panicked,
               elems |-> <<containerInterface>> \o rest.elems]
         ELSE LET r == ContainerEffect(containerInterface.fields) IN
              IF r.panicked
              THEN [panicked |-> TRUE,
                    elems |-> <<Obj(r.fields)>> \o Tail(containerSlice)]
              ELSE LET rest == ContainersEffectFrom(Tail(containerSlice)) IN
                   [panicked |-> rest.panicked,
                    elems |-> <<Obj(r.fields)>> \o rest.elems]

ContainersEffect(containerData) ==
    IF containerData.kind # "array" THEN [panicked |-> FALSE, data |-> containerData]
    ELSE LET r == ContainersEffectFrom(containerData.elems) IN
         [panicked |-> r.panicked, data |-> Arr(r.elems)]

\* A part record after its iteration of ParseCurriculum's loop.
PartEffect(partMap) ==
    LET containersRaw == Field(partMap, "container")
        walked == ContainersEffect(containersRaw)
        withContainers ==
            IF containersRaw.kind = "absent" THEN partMap
            ELSE [partMap EXCEPT !["container"] = walked.data]
        noContainer ==
            containersRaw.kind = "absent"
            \/ Len(parseContainers(containersRaw).containers) = 0
    IN  IF Field(partMap, "order").kind # "string"
        THEN [panicked |-> TRUE, fields |-> partMap]
        ELSE IF containersRaw.kind # "absent" /\ walked.panicked
        THEN [panicked |-> TRUE, fields |-> withContainers]
        ELSE [panicked |-> FALSE,
              fields |-> IF noContainer THEN ItemsEffect(withContainers)
                         ELSE withContainers]

RECURSIVE PartsEffectFrom(_)
PartsEffectFrom(partsData) ==
    IF partsData = <<>> THEN <<>>
    ELSE LET partInterface == Head(partsData) IN
         IF partInterface.kind # "object"
         THEN <<partInterface>> \o PartsEffectFrom(Tail(partsData))
         ELSE LET r == PartEffect(partInterface.fields) IN
              IF r.panicked THEN <<Obj(r.fields)>> \o Tail(partsData)
              ELSE <<Obj(r.fields)>> \o PartsEffectFrom(Tail(partsData))

\* The raw document after ParseCurriculum(raw).
DocumentEffect(raw) ==
    LET data == GetTypedValue(raw) IN
    IF \/ Field(data, "credit_points").kind # "string"
       \/ Field(data, "container").kind # "array"
    THEN raw
    ELSE Obj([data EXCEPT !["container"] = Arr(PartsEffectFrom(@.elems))])

----------------------------------------------------------------------------
(* Raw curriculum documents.  The fetched document is grown one entry at a *)
(* time: a part, a container or an item is appended to the "container" or  *)
(* "relationship" array of a node on the path from the last part down      *)
(* through each last container.  Entries are well-formed records, records  *)
(* that lack a sub-field, or values that are not records.                  *)

\* Credit-points strings: "12", "x6y1" (first number 6) and "x" (no number).
CreditStrings == { <<"1", "2">>, <<"x", "6", "y", "1">>, <<"x">> }

\* What the document may hold as the curriculum's total credit points.
TotalCredits == { Str(s) : s \in CreditStrings } \cup { Num(12), Absent }

ConnectorLabels == { <<"AND">>, <<"OR">>, <<>> }

NotARecord == Str(<<"x">>)

PartEntries ==
    { Obj([credit_points |-> Str(s), order |-> Str(<<"1">>)]) : s \in CreditStrings }
    \cup { Obj([credit_points |-> Str(<<"1", "2">>)]), NotARecord }

ContainerEntries ==
    { Obj([credit_points |-> Str(s),
           parent_connector |-> Obj([value |-> Str(w)])]) :
        s \in CreditStrings, w \in ConnectorLabels }
    \cup { Obj([credit_points |-> Str(<<"1", "2">>)]), NotARecord }

ItemEntries ==
    { Obj([academic_item_code |-> Str(<<"FIT1045">>),
           academic_item_credit_points |-> Str(s)]) : s \in CreditStrings }
    \cup { Obj([academic_item_code |-> Str(<<"FIT1045">>),
                academic_item_credit_points |-> Str(<<"1", "2">>),
                parent_connector |-> Obj([value |-> Str(<<"OR">>)])]),
           NotARecord }

\* The entries of the array a node holds under key, none if it holds none.
Entries(node, key) ==
    IF Field(node, key).kind = "array" THEN Field(node, key).elems ELSE <<>>

\* node with the entries of the array under key replaced.
WithEntries(node, key, elems) ==
    [k \in DOMAIN node \cup {key} |-> IF k = key THEN Arr(elems) ELSE node[k]]

\* The last entry of node's "container" array is a record.
HasOpenEntry(node) ==
    LET elems == Entries(node, "container") IN
    elems # <<>> /\ elems[Len(elems)].kind = "object"

RECURSIVE OpenLevels(_)
\* Number of records on the path from node down through each last entry.
OpenLevels(node) ==
    IF HasOpenEntry(node)
    THEN LET elems == Entries(node, "container") IN
         1 + OpenLevels(elems[Len(elems)].fields)
    ELSE 0

RECURSIVE AppendEntry(_, _, _, _)
\* node with entry appended under key, d levels down that path.
AppendEntry(node, d, key, entry) ==
    IF d = 0 THEN WithEntries(node, key, Append(Entries(node, key), entry))
    ELSE LET elems == Entries(node, "container") IN
         WithEntries(node, "container",
            [elems EXCEPT ![Len(elems)] =
                Obj(AppendEntry(@.fields, d - 1, key, entry))])

RECURSIVE CountEntries(_)
\* Number of entries of the arrays below node.
CountEntries(node) ==
    LET RECURSIVE Sum(_)
        Sum(elems) ==
            IF elems = <<>> THEN 0
            ELSE 1 + (IF Head(elems).kind = "object"
                      THEN CountEntries(Head(elems).fields) ELSE 0)
                 + Sum(Tail(elems))
    IN  Sum(Entries(node, "container")) + Sum(Entries(node, "relationship"))

\* Largest number of entries of a raw curriculum document in SpecP.
MaxEntries == 3

\* Largest number of entries below the first container of the part in SpecN.
MaxNested == 2

InitP ==
    /\ unitData = UnitData(<<>>)
    /\ completedUnits = <<>>
    /\ call = NoCall
    /\ document \in { Obj([credit_points |-> t, container |-> Arr(<<>>)]) :
                        t \in TotalCredits \ {Absent} }
                    \cup { Obj([container |-> Arr(<<>>)]),
                           Obj([credit_points |-> Str(<<"1", "2">>)]),
                           Null }
    /\ parsed = NotParsed
    /\ InitServer

CanGrow(limit) ==
    /\ parsed = NotParsed
    /\ document.kind = "object"
    /\ Field(document.fields, "container").kind = "array"
    /\ CountEntries(document.fields) < limit

\* The document holds one more part.
AddPartEntry(limit) ==
    /\ CanGrow(limit)
    /\ \E entry \in PartEntries :
          document' = Obj(AppendEntry(document.fields, 0, "container", entry))
    /\ UNCHANGED <<unitData, completedUnits, call, parsed, serverVars>>

\* A part (level 1) or a container (level 2 and below) of the document
\* holds one more container; the level is lo or below.
AddContainerEntry(lo, limit) ==
    /\ CanGrow(limit)
    /\ \E d \in lo..limit, entry \in ContainerEntries :
          /\ d <= OpenLevels(document.fields)
          /\ document' = Obj(AppendEntry(document.fields, d, "container", entry))
    /\ UNCHANGED <<unitData, completedUnits, call, parsed, serverVars>>

\* A part or a container of the document holds one more item.
AddItemEntry(lo, limit) ==
    /\ CanGrow(limit)
    /\ \E d \in lo..limit, entry \in ItemEntries :
          /\ d <= OpenLevels(document.fields)
          /\ document' = Obj(AppendEntry(document.fields, d, "relationship", entry))
    /\ UNCHANGED <<unitData, completedUnits, call, parsed, serverVars>>

\* The scraper builds the curriculum structure of the fetched document.
ParseCurriculumCall ==
    /\ parsed = NotParsed
    /\ parsed' = ParseCurriculum(document)
    /\ document' = DocumentEffect(document)
    /\ UNCHANGED <<unitData, completedUnits, call, serverVars>>

NextP ==
    \/ AddPartEntry(MaxEntries)
    \/ AddContainerEntry(1, MaxEntries)
    \/ AddItemEntry(1, MaxEntries)
    \/ ParseCurriculumCall

\* Every raw document up to MaxEntries entries.
SpecP == InitP /\ [][NextP]_vars

(* The same builder on documents of one well-formed part that holds one    *)
(* container with a parent connector, below which the document grows: the  *)
(* container-level behaviour.                                              *)

InitN ==
    /\ unitData = UnitData(<<>>)
    /\ completedUnits = <<>>
    /\ call = NoCall
    /\ document \in
          { Obj([credit_points |-> Str(<<"1", "2">>),
                 container |-> Arr(<<
                    Obj([credit_points |-> Str(<<"1", "2">>),
                         order |-> Str(<<"1">>),
                         container |-> Arr(<<entry>>)]) >>)]) :
              entry \in { e \in ContainerEntries :
                            e.kind = "object" /\ "parent_connector" \in DOMAIN e.fields } }
    /\ parsed = NotParsed
    /\ InitServer

NextN ==
    \/ AddContainerEntry(2, MaxNested + 2)
    \/ AddItemEntry(2, MaxNested + 2)
    \/ ParseCurriculumCall

SpecN == InitN /\ [][NextN]_vars

----------------------------------------------------------------------------
(* The Requisite Compressor.  compressRequisites decodes the requisites    *)
(* section (json.Unmarshal into []Requisite) and compresses the decoded    *)
(* list; the model starts from the decoded list.  Of the raw types it      *)
(* keeps the fields the compressor reads, and one that it drops next to    *)
(* each.                                                                   *)

\* units.Connector and units.RequisiteType: a label and a value.
Connector(label, value) == [Label |-> label, Value |-> value]

Relationship(code) ==
    [AcademicItemCode |-> code, AcademicItemName |-> "name"]

Container(parentConnector) ==
    [ParentConnector |-> parentConnector, Title |-> "title",
     Relationships |-> <<>>, Containers |-> <<>>]

Requisite(requisiteType) ==
    [RequisiteType |-> requisiteType, Order |-> "0", Containers |-> <<>>]

\* The parent connectors of raw containers: label and value differ, and a
\* container may carry an empty label.
ParentConnectors ==
    { Connector("AND", "and"), Connector("OR", "or"), Connector("", "") }

RequisiteTypeLabels ==
    { Connector(t, "value") : t \in RequisiteTypes }

RECURSIVE compressContainer(_)

\* compressContainer reading parent_connector.value for its label.
compressContainerByValue(container) ==
    [Relationship |-> container.ParentConnector.Value,
     Units |-> [i \in 1..Len(container.Relationships) |->
                    CompressedUnit(container.Relationships[i].AcademicItemCode)],
     Containers |-> [i \in 1..Len(container.Containers) |->
                        compressContainer(container.Containers[i])]]

compressContainer(container) ==
    [Relationship |-> container.ParentConnector.Label,
     Units |-> [i \in 1..Len(container.Relationships) |->
                    CompressedUnit(container.Relationships[i].AcademicItemCode)],
     Containers |-> [i \in 1..Len(container.Containers) |->
                        compressContainer(container.Containers[i])]]

\* compressRequisites on the decoded list; its error is nil.
compressRequisites(requisites) ==
    [i \in 1..Len(requisites) |->
        CompressedRequisite(requisites[i].RequisiteType.Label,
            [j \in 1..Len(requisites[i].Containers) |->
                compressContainer(requisites[i].Containers[j])])]

RECURSIVE RawForestWeight(_)
RawForestWeight(containers) ==
    IF containers = <<>> THEN 0
    ELSE 1 + Len(Head(containers).Relationships)
         + RawForestWeight(Head(containers).Containers)
         + RawForestWeight(Tail(containers))

RECURSIVE RawWeight(_)
\* Number of requisites, containers and relationship entries of a raw list.
RawWeight(requisites) ==
    IF requisites = <<>> THEN 0
    ELSE 1 + RawForestWeight(Head(requisites).Containers)
         + RawWeight(Tail(requisites))

RECURSIVE AppendRelationship(_, _)
\* containers with relationship r appended to the container at the end of
\* the path through each last container.
AppendRelationship(containers, r) ==
    LET last == containers[Len(containers)] IN
    [containers EXCEPT ![Len(containers)] =
        IF last.Containers = <<>>
        THEN [@ EXCEPT !.Relationships = Append(@, r)]
        ELSE [@ EXCEPT !.Containers = AppendRelationship(@, r)]]

\* Largest weight of a raw requisite list in SpecR.
MaxRawSize == 6

\* The requisites section of a fetched unit page, decoded.
RawRequisites(requisites) == [kind |-> "requisites", requisites |-> requisites]

InitR ==
    /\ unitData = UnitData(<<>>)
    /\ completedUnits = <<>>
    /\ call = NoCall
    /\ document = RawRequisites(<<>>)
    /\ parsed = NotParsed
    /\ InitServer

CanGrowRaw ==
    /\ call = NoCall
    /\ RawWeight(document.requisites) < MaxRawSize

\* The section holds one more requisite.
AddRawRequisite ==
    /\ CanGrowRaw
    /\ \E t \in RequisiteTypeLabels :
          document' = RawRequisites(Append(document.requisites, Requisite(t)))
    /\ UNCHANGED <<unitData, completedUnits, call, parsed, serverVars>>

\* The last requisite, or a container on the path through each last
\* container, holds one more container.
AddRawContainer ==
    LET n == Len(document.requisites) IN
    /\ CanGrowRaw
    /\ n > 0
    /\ \E c \in ParentConnectors, d \in 0..MaxRawSize :
          /\ d <= OpenDepth(document.requisites[n].Containers)
          /\ document' = [document EXCEPT !.requisites[n].Containers =
                              AppendContainer(@, d, Container(c))]
    /\ UNCHANGED <<unitData, completedUnits, call, parsed, serverVars>>

\* The container at the end of that path holds one more relationship.
AddRawRelationship ==
    LET n == Len(document.requisites) IN
    /\ CanGrowRaw
    /\ n > 0
    /\ OpenDepth(document.requisites[n].Containers) > 0
    /\ \E code \in Codes :
          document' = [document EXCEPT !.requisites[n].Containers =
                           AppendRelationship(@, Relationship(code))]
    /\ UNCHANGED <<unitData, completedUnits, call, parsed, serverVars>>

\* The scraper compresses the section into the unit's Requisites.
CompressRequisitesCall ==
    /\ call = NoCall
    /\ unitData' = UnitData(compressRequisites(document.requisites))
    /\ call' = Call("compressRequisites", NoContainers, FALSE,
                    Result(TRUE, <<>>, NoError))
    /\ UNCHANGED <<completedUnits, document, parsed, serverVars>>

NextR ==
    \/ AddRawRequisite
    \/ AddRawContainer
    \/ AddRawRelationship
    \/ CompressRequisitesCall

SpecR == InitR /\ [][NextR]_vars

----------------------------------------------------------------------------
(* Reference semantics the claims are stated against: the verdict of a     *)
(* container as the specification words it, decided on the tree and the    *)
(* set of completed codes, without any message.                            *)

CompletedCodes == { completedUnits[i].Code : i \in 1..Len(completedUnits) }

RECURSIVE AllKnown(_)
\* Every relationship in the subtree is AND or OR.
AllKnown(c) ==
    /\ c.Relationship \in {"AND", "OR"}
    /\ \A i \in 1..Len(c.Containers) : AllKnown(c.Containers[i])

RECURSIVE Verdict(_, _, _)
\* "sat" (satisfied / not violated), "unsat" (not satisfied / violated) or
\* "error" (the walk reaches a container of unknown relationship).
Verdict(c, S, isProhibition) ==
    LET n == Len(c.Containers)
        v == [i \in 1..n |-> Verdict(c.Containers[i], S, isProhibition)]
        anyUnit == \E i \in 1..Len(c.Units) : c.Units[i].UnitCode \in S
        allUnits == \A i \in 1..Len(c.Units) : c.Units[i].UnitCode \in S
    IN  IF c.Relationship \notin {"AND", "OR"} THEN "error"
        ELSE IF Len(c.Units) = 0 /\ n = 0 THEN "sat"
        ELSE IF c.Relationship = "AND" THEN
            IF \E i \in 1..n : v[i] = "error" THEN "error"
            ELSE IF isProhibition
            THEN (IF anyUnit \/ \E i \in 1..n : v[i] = "unsat" THEN "unsat" ELSE "sat")
            ELSE (IF allUnits /\ \A i \in 1..n : v[i] = "sat" THEN "sat" ELSE "unsat")
        ELSE IF isProhibition THEN
            IF \E i \in 1..n : v[i] = "error" THEN "error"
            ELSE IF anyUnit \/ n > 0 THEN "unsat" ELSE "sat"
        ELSE
            IF anyUnit THEN "sat"
            ELSE IF \E i \in 1..n : /\ v[i] # "unsat"
                                    /\ \A j \in 1..(i - 1) : v[j] = "unsat"
            THEN LET i == CHOOSE k \in 1..n : /\ v[k] # "unsat"
                                              /\ \A j \in 1..(k - 1) : v[j] = "unsat"
                 IN  v[i]
            ELSE "unsat"

RECURSIVE Joined(_, _)
\* The codes of a non-empty list separated by sep.
Joined(codes, sep) ==
    IF Len(codes) = 1 THEN codes
    ELSE <<codes[1], sep>> \o Joined(Tail(codes), sep)

RECURSIVE Select(_, _, _)
\* The codes of units that are (wanted = TRUE) or are not in S, in order.
Select(units, S, wanted) ==
    IF units = <<>> THEN <<>>
    ELSE (IF (Head(units).UnitCode \in S) = wanted
          THEN <<Head(units).UnitCode>> ELSE <<>>) \o Select(Tail(units), S, wanted)

RECURSIVE NestedMessages(_, _, _)
\* The messages of the nested containers cs, one after the other.
NestedMessages(cs, completed, isProhibition) ==
    IF cs = <<>> THEN <<>>
    ELSE checkContainerLogic(Head(cs), completed, isProhibition).messages
         \o NestedMessages(Tail(cs), completed, isProhibition)

\* The container a checkContainerLogic call was made on.
Evaluated == call.containers[1]

LogicCalled(relationship, isProhibition) ==
    /\ call.op = "checkContainerLogic"
    /\ call.isProhibition = isProhibition
    /\ Evaluated.Relationship = relationship

Checked(requisite) == requisite.RequisiteType \in {"Prerequisite", "Prohibition"}

ModeOf(requisite) == requisite.RequisiteType = "Prohibition"

\* One message: the prefix, then the codes separated by sep.
Message(prefix, codes, sep) == <<prefix>> \o Joined(codes, sep)

AllCodes(units) == [i \in 1..Len(units) |-> units[i].UnitCode]

----------------------------------------------------------------------------
(* C1: when no error is raised, CheckRequisites returns satisfied = true   *)
(* iff every top-level container of every Prerequisite requisite is        *)
(* satisfied and no top-level container of any Prohibition requisite is    *)
(* violated; for an empty requisite list it returns true and no message.   *)
C1_TopLevel ==
    (call.op = "CheckRequisites" /\ call.err = NoError) =>
        /\ call.met <=>
              \A i \in 1..Len(unitData.Requisites) :
                 LET requisite == unitData.Requisites[i] IN
                 Checked(requisite) =>
                    \A j \in 1..Len(requisite.Containers) :
                        Verdict(requisite.Containers[j], CompletedCodes,
                                ModeOf(requisite)) = "sat"
        /\ unitData.Requisites = <<>> => call.met /\ call.messages = <<>>

\* A Prerequisite and a Prohibition requisite, each with a container, are
\* checked without error and the requirements are found not satisfied.
C1_Witness ==
    /\ call.op = "CheckRequisites" /\ call.err = NoError /\ ~call.met
    /\ \E i, k \in 1..Len(unitData.Requisites) :
          /\ unitData.Requisites[i].RequisiteType = "Prerequisite"
          /\ unitData.Requisites[k].RequisiteType = "Prohibition"
          /\ unitData.Requisites[i].Containers # <<>>
          /\ unitData.Requisites[k].Containers # <<>>

----------------------------------------------------------------------------
(* C2: an AND container whose subtree holds only AND / OR, evaluated in    *)
(* prerequisite mode, is reported satisfied iff every direct unit code is  *)
(* in the completed set and every nested container is satisfied,           *)
(* recursively.                                                            *)
C2_AndPrerequisite ==
    (LogicCalled("AND", FALSE) /\ AllKnown(Evaluated)) =>
        /\ call.err = NoError
        /\ call.met <=>
            /\ \A i \in 1..Len(Evaluated.Units) :
                    Evaluated.Units[i].UnitCode \in CompletedCodes
            /\ \A i \in 1..Len(Evaluated.Containers) :
                    Verdict(Evaluated.Containers[i], CompletedCodes, FALSE) = "sat"

\* An AND container with a direct unit and a nested container that holds a
\* unit is found satisfied.
C2_Witness ==
    /\ LogicCalled("AND", FALSE) /\ AllKnown(Evaluated)
    /\ Len(Evaluated.Units) > 0
    /\ \E i \in 1..Len(Evaluated.Containers) : Len(Evaluated.Containers[i].Units) > 0
    /\ call.met

----------------------------------------------------------------------------
(* C3 as stated: every OR container (subtree AND / OR only) evaluated in   *)
(* prerequisite mode is reported satisfied iff at least one direct unit is *)
(* completed or at least one nested container is satisfied.                *)
C3_AsStated ==
    (LogicCalled("OR", FALSE) /\ AllKnown(Evaluated)) =>
        (call.met <=>
            \/ \E i \in 1..Len(Evaluated.Units) :
                    Evaluated.Units[i].UnitCode \in CompletedCodes
            \/ \E i \in 1..Len(Evaluated.Containers) :
                    Verdict(Evaluated.Containers[i], CompletedCodes, FALSE) = "sat")

(* C3 as amended: the same, for every OR container that has at least one   *)
(* direct unit or nested container (an OR container with neither is        *)
(* satisfied).                                                             *)
C3_OrPrerequisite ==
    (LogicCalled("OR", FALSE) /\ AllKnown(Evaluated)) =>
        /\ call.err = NoError
        /\ IF Evaluated.Units = <<>> /\ Evaluated.Containers = <<>>
           THEN call.met
           ELSE call.met <=>
                \/ \E i \in 1..Len(Evaluated.Units) :
                        Evaluated.Units[i].UnitCode \in CompletedCodes
                \/ \E i \in 1..Len(Evaluated.Containers) :
                        Verdict(Evaluated.Containers[i], CompletedCodes, FALSE) = "sat"

\* An OR container none of whose direct units is completed is found
\* satisfied through its second nested container, the first being
\* unsatisfied.
C3_Witness ==
    /\ LogicCalled("OR", FALSE) /\ call.met
    /\ Len(Evaluated.Units) > 0
    /\ \A i \in 1..Len(Evaluated.Units) : Evaluated.Units[i].UnitCode \notin CompletedCodes
    /\ Len(Evaluated.Containers) >= 2
    /\ Verdict(Evaluated.Containers[1], CompletedCodes, FALSE) = "unsat"
    /\ Evaluated.Containers[2].Units # <<>>

----------------------------------------------------------------------------
(* C4 as stated: a container with no unit and no nested container is       *)
(* reported satisfied (prerequisite mode) / not violated (prohibition      *)
(* mode), with no message and no error, whatever its Relationship.         *)
C4_AsStated ==
    (/\ call.op = "checkContainerLogic"
     /\ Evaluated.Units = <<>> /\ Evaluated.Containers = <<>>) =>
        call.met /\ call.messages = <<>> /\ call.err = NoError

(* C4 as amended: the same, for a Relationship of AND or OR.               *)
C4_EmptyContainer ==
    (/\ call.op = "checkContainerLogic"
     /\ Evaluated.Units = <<>> /\ Evaluated.Containers = <<>>
     /\ Evaluated.Relationship \in {"AND", "OR"}) =>
        call.met /\ call.messages = <<>> /\ call.err = NoError

\* An empty OR container is evaluated in prerequisite mode, and one in
\* prohibition mode, against a student with completed units.
C4_Witness ==
    /\ call.op = "checkContainerLogic"
    /\ Evaluated = CompressedContainer("OR")
    /\ ~call.isProhibition
    /\ completedUnits # <<>>
    /\ call.met

----------------------------------------------------------------------------
(* C5: an AND container evaluated in prohibition mode is reported violated *)
(* as soon as one of its direct units is completed; it is reported not     *)
(* violated exactly when no direct unit is completed and no nested         *)
(* container is violated; its "Prohibited by: " message lists exactly the  *)
(* completed direct units, in container order, joined by " and " (it       *)
(* follows the messages of the nested containers).                         *)
C5_AndProhibition ==
    LogicCalled("AND", TRUE) =>
        LET hit == Select(Evaluated.Units, CompletedCodes, TRUE) IN
        /\ call.err = NoError
        /\ hit # <<>> => ~call.met
        /\ call.met <=>
              /\ hit = <<>>
              /\ \A i \in 1..Len(Evaluated.Containers) :
                    Verdict(Evaluated.Containers[i], CompletedCodes, TRUE) = "sat"
        /\ call.messages =
              NestedMessages(Evaluated.Containers, completedUnits, TRUE)
              \o (IF hit # <<>> THEN <<Message("Prohibited by: ", hit, " and ")>>
                  ELSE <<>>)

\* An AND prohibition container with two direct units, only the second of
\* them completed, is found violated.
C5_Witness ==
    /\ LogicCalled("AND", TRUE) /\ ~call.met
    /\ Len(Evaluated.Units) = 2
    /\ Evaluated.Units[1].UnitCode \notin CompletedCodes
    /\ Evaluated.Units[2].UnitCode \in CompletedCodes
    /\ call.messages = << <<"Prohibited by: ", Evaluated.Units[2].UnitCode>> >>

----------------------------------------------------------------------------
(* C6: an OR container evaluated in prohibition mode inspects every direct *)
(* unit and every nested container: its single "Prohibited by one of: "    *)
(* message lists every completed direct unit in container order and then   *)
(* one entry per nested container that is not violated, joined by " or ";  *)
(* the messages of the nested containers follow it.                        *)
C6_OrProhibition ==
    LogicCalled("OR", TRUE) =>
        LET hit == Select(Evaluated.Units, CompletedCodes, TRUE)
            n == Len(Evaluated.Containers)
            quiet == { i \in 1..n :
                        Verdict(Evaluated.Containers[i], CompletedCodes, TRUE) = "sat" }
            tally == hit \o [i \in 1..Cardinality(quiet) |-> "sub-container"]
        IN  /\ call.err = NoError
            /\ call.messages =
                  (IF tally # <<>>
                   THEN <<Message("Prohibited by one of: ", tally, " or ")>>
                   ELSE <<>>)
                  \o NestedMessages(Evaluated.Containers, completedUnits, TRUE)

\* An OR prohibition container with two completed direct units, a nested
\* container that is not violated and one that is.
C6_Witness ==
    /\ LogicCalled("OR", TRUE)
    /\ Len(Select(Evaluated.Units, CompletedCodes, TRUE)) = 2
    /\ \E i, j \in 1..Len(Evaluated.Containers) :
          /\ Verdict(Evaluated.Containers[i], CompletedCodes, TRUE) = "sat"
          /\ Verdict(Evaluated.Containers[j], CompletedCodes, TRUE) = "unsat"
    /\ Len(call.messages) >= 2

----------------------------------------------------------------------------
(* C7: when the evaluation of a Prerequisite or Prohibition requisite      *)
(* reaches a container whose Relationship is neither AND nor OR,           *)
(* CheckRequisites returns an error, satisfied = false and no message.     *)
C7_UnknownRelationship ==
    (/\ call.op = "CheckRequisites"
     /\ \E i \in 1..Len(unitData.Requisites) :
           LET requisite == unitData.Requisites[i] IN
           /\ Checked(requisite)
           /\ \E j \in 1..Len(requisite.Containers) :
                 Verdict(requisite.Containers[j], CompletedCodes,
                         ModeOf(requisite)) = "error") =>
        call.err # NoError /\ ~call.met /\ call.messages = <<>>

\* The unknown relationship is reached below a top-level container of known
\* relationship, and CheckRequisites returns the error.
C7_Witness ==
    /\ call.op = "CheckRequisites" /\ call.err # NoError
    /\ \E i \in 1..Len(unitData.Requisites) :
          LET requisite == unitData.Requisites[i] IN
          /\ Checked(requisite)
          /\ \E j \in 1..Len(requisite.Containers) :
                /\ requisite.Containers[j].Relationship = "OR"
                /\ \E k \in 1..Len(requisite.Containers[j].Containers) :
                      requisite.Containers[j].Containers[k].Relationship = "AND"
                /\ Verdict(requisite.Containers[j], CompletedCodes,
                           ModeOf(requisite)) = "error"

----------------------------------------------------------------------------
(* C8: the result of an AND prerequisite container holds a "Requires: "    *)
(* message of its own iff a direct unit is not completed; there is one     *)
(* such message, listing exactly the uncompleted direct units in container *)
(* order joined by " and " (it follows the messages of the nested          *)
(* containers).                                                            *)
C8_AndRequires ==
    LogicCalled("AND", FALSE) =>
        LET missing == Select(Evaluated.Units, CompletedCodes, FALSE) IN
        /\ call.err = NoError
        /\ call.messages =
              NestedMessages(Evaluated.Containers, completedUnits, FALSE)
              \o (IF missing # <<>> THEN <<Message("Requires: ", missing, " and ")>>
                  ELSE <<>>)

\* Scenario 2: AND([FIT1045, FIT2004]) with FIT1045 completed gives
\* "Requires: FIT2004".
C8_Witness ==
    /\ LogicCalled("AND", FALSE)
    /\ AllCodes(Evaluated.Units) = <<"FIT1045", "FIT2004">>
    /\ Evaluated.Containers = <<>>
    /\ CompletedCodes = {"FIT1045"}
    /\ ~call.met
    /\ call.messages = << <<"Requires: ", "FIT2004">> >>

----------------------------------------------------------------------------
(* C9: the messages of an OR prerequisite container that is not satisfied  *)
(* are: one "Requires one of: " message listing all direct units in        *)
(* container order joined by " or " (iff it has direct units), then the    *)
(* messages of each nested container in container order, each once.        *)
C9_OrRequires ==
    (LogicCalled("OR", FALSE) /\ call.err = NoError /\ ~call.met) =>
        call.messages =
            (IF Evaluated.Units # <<>>
             THEN <<Message("Requires one of: ", AllCodes(Evaluated.Units), " or ")>>
             ELSE <<>>)
            \o NestedMessages(Evaluated.Containers, completedUnits, FALSE)

\* An unsatisfied OR container with a direct unit and two nested containers
\* that each give a message.
C9_Witness ==
    /\ LogicCalled("OR", FALSE) /\ ~call.met
    /\ Len(Evaluated.Units) = 1
    /\ Len(Evaluated.Containers) = 2
    /\ Len(call.messages) = 3
    /\ call.messages[2] # call.messages[3]

----------------------------------------------------------------------------
(* C10: the messages CheckRequisites returns are, in the order of the      *)
(* requisites, the messages of each unsatisfied Prerequisite requisite and *)
(* each violated Prohibition requisite, those of one requisite being the   *)
(* messages of its top-level containers in container order; the other      *)
(* requisites contribute nothing.                                          *)
C10_MessageOrder ==
    (call.op = "CheckRequisites" /\ call.err = NoError) =>
        call.messages =
            Flatten([i \in 1..Len(unitData.Requisites) |->
                LET requisite == unitData.Requisites[i] IN
                IF Checked(requisite)
                THEN NestedMessages(requisite.Containers, completedUnits,
                                    ModeOf(requisite))
                ELSE <<>>])

\* An unsatisfied Prerequisite requisite followed by a violated Prohibition
\* requisite: the first message is the prerequisite's, the second the
\* prohibition's.
C10_Witness ==
    /\ call.op = "CheckRequisites"
    /\ Len(unitData.Requisites) = 2
    /\ unitData.Requisites[1].RequisiteType = "Prerequisite"
    /\ unitData.Requisites[2].RequisiteType = "Prohibition"
    /\ Len(call.messages) = 2
    /\ call.messages[1][1] \in {"Requires: ", "Requires one of: "}
    /\ call.messages[2][1] \in {"Prohibited by: ", "Prohibited by one of: "}

----------------------------------------------------------------------------
(* C11.  "Nothing registers" is read off the code: the container is not    *)
(* empty, no direct unit is completed, no error is raised, no message is   *)
(* accumulated and no early return is taken (in checkOrLogic's             *)
(* prerequisite branch: no nested container is met), so that the closing   *)
(* return of checkAndLogic / checkOrLogic gives the result.                *)
NothingRegisters ==
    /\ call.op = "checkContainerLogic"
    /\ Evaluated.Relationship \in {"AND", "OR"}
    /\ ~IsEmptyContainer(Evaluated)
    /\ \A i \in 1..Len(Evaluated.Units) :
            Evaluated.Units[i].UnitCode \notin CompletedCodes
    /\ call.err = NoError
    /\ call.messages = <<>>
    /\ (Evaluated.Relationship = "OR" /\ ~call.isProhibition) =>
            FirstDecisive(SubResults(Evaluated, completedUnits, FALSE)) = 0

(* C11 as stated: for an AND or OR container with a unit or a nested       *)
(* container for which nothing registers, the boolean result equals the    *)
(* prohibition flag.                                                       *)
C11_AsStated ==
    NothingRegisters => (call.met = call.isProhibition)

(* C11 as amended: for such an OR container the result equals the          *)
(* prohibition flag; for such an AND container the result is true in both  *)
(* modes (satisfied / not violated).                                       *)
C11_Default ==
    NothingRegisters =>
        /\ Evaluated.Relationship = "OR" => call.met = call.isProhibition
        /\ Evaluated.Relationship = "AND" => call.met

\* An AND container holding nested containers only is evaluated in
\* prerequisite mode for a student who has completed nothing: no message is
\* accumulated and it is found satisfied.
C11_Witness ==
    /\ NothingRegisters
    /\ LogicCalled("AND", FALSE)
    /\ Evaluated.Units = <<>>
    /\ Evaluated.Containers # <<>>
    /\ completedUnits = <<>>
    /\ call.met

----------------------------------------------------------------------------
(* The built curriculum against the document it was built from.  The parts *)
(* of the curriculum are matched with the entries of the document's        *)
(* "container" array that are records, in order.                           *)

Built == parsed.outcome = "ok"

Parts == parsed.curriculum.Parts

Records(elems) == SelectSeq(elems, LAMBDA e : e.kind = "object")

PartRecords == Records(Entries(GetTypedValue(document), "container"))

\* The required credit points a record of the document declares.
DocCredit(record) == StringToInt(AsString(Field(record.fields, "credit_points")))

\* A node's first child carries `required` credit points: its first
\* container or, when it has no container, its first item.
FirstChildCarries(node, required) ==
    IF Len(node.Containers) > 0
    THEN node.Containers[1].CreditPointsRequired = required
    ELSE /\ Len(node.AcademicItems) > 0
         /\ node.AcademicItems[1].CreditPoints = required

----------------------------------------------------------------------------
(* C12: every Part of a built curriculum has Connector "OR" if its first   *)
(* child (first parsed container or, with no container parsed, first       *)
(* parsed item) carries the required credit points the document declares   *)
(* for the Part (before credit normalization), and "AND" otherwise.        *)
C12_PartConnector ==
    Built =>
        /\ Len(Parts) = Len(PartRecords)
        /\ \A i \in 1..Len(Parts) :
              Parts[i].Connector =
                 IF FirstChildCarries(Parts[i], DocCredit(PartRecords[i]))
                 THEN <<"OR">> ELSE <<"AND">>

\* A Part declared with the curriculum's total of 12 credit points, whose
\* first container requires 12 and whose second does not, is built with
\* Connector "OR" although its own credit points were normalized to 0.
C12_Witness ==
    /\ Built
    /\ parsed.curriculum.TotalCreditPoints = 12
    /\ \E i \in 1..Len(Parts) :
          /\ DocCredit(PartRecords[i]) = 12
          /\ Parts[i].CreditPointsRequired = 0
          /\ Len(Parts[i].Containers) = 2
          /\ Parts[i].Containers[1].CreditPointsRequired = 12
          /\ Parts[i].Containers[2].CreditPointsRequired = 6
          /\ Parts[i].Connector = <<"OR">>

----------------------------------------------------------------------------
(* Containers against the records they were built from.                    *)

\* The string a record holds as parent_connector.value.
ParentConnectorOf(record) ==
    LET conn == Field(record.fields, "parent_connector") IN
    IF conn.kind = "object" THEN AsString(Field(conn.fields, "value")) ELSE <<>>

\* The records among the entries of a record's "container" array.
NestedRecords(record) == Records(Entries(record.fields, "container"))

\* The parent connector the last nested record of a record declares; ""
\* when it has no nested record.
DeclaredLabel(record) ==
    LET rs == NestedRecords(record) IN
    IF rs = <<>> THEN <<>> ELSE ParentConnectorOf(rs[Len(rs)])

RECURSIVE ContainerPairs(_, _)
\* Each container of the list and every container below, each paired with
\* the record it was built from.
ContainerPairs(records, containers) ==
    UNION { {[record |-> records[i], container |-> containers[i]]}
            \cup ContainerPairs(NestedRecords(records[i]), containers[i].Containers) :
            i \in 1..Len(containers) }

\* Every container of the built curriculum with its record.
BuiltContainers ==
    UNION { ContainerPairs(NestedRecords(PartRecords[i]), Parts[i].Containers) :
            i \in 1..Len(Parts) }

----------------------------------------------------------------------------
(* C13 as stated: every Container of a built curriculum, at any depth, has *)
(* Connector "OR" if its first child (first nested container or first      *)
(* item) carries the Container's own required credit points, and "AND"     *)
(* otherwise, whatever else the document holds.                            *)
C13_AsStated ==
    Built =>
        \A b \in BuiltContainers :
            b.container.Connector =
                IF FirstChildCarries(b.container, b.container.CreditPointsRequired)
                THEN <<"OR">> ELSE <<"AND">>

(* C13 as amended: Connector is "OR" if the first nested container, or the *)
(* first item, carries the Container's own required credit points;         *)
(* otherwise it is the parent connector declared by the last record among  *)
(* the Container's nested container entries when that is a non-empty       *)
(* string, and "AND" when it is not.                                       *)
C13_ContainerConnector ==
    Built =>
        \A b \in BuiltContainers :
            b.container.Connector =
                IF \/ /\ Len(b.container.Containers) > 0
                      /\ b.container.Containers[1].CreditPointsRequired
                            = b.container.CreditPointsRequired
                   \/ /\ Len(b.container.AcademicItems) > 0
                      /\ b.container.AcademicItems[1].CreditPoints
                            = b.container.CreditPointsRequired
                THEN <<"OR">>
                ELSE IF DeclaredLabel(b.record) # <<>> THEN DeclaredLabel(b.record)
                ELSE <<"AND">>

\* A container requiring 12 credit points holds two nested containers of 6
\* credit points, the first declaring parent connector "AND" and the second
\* "OR": it is built with Connector "OR".
C13_Witness ==
    /\ Built
    /\ \E b \in BuiltContainers :
          /\ b.container.CreditPointsRequired = 12
          /\ Len(b.container.Containers) = 2
          /\ b.container.Containers[1].CreditPointsRequired = 6
          /\ ParentConnectorOf(NestedRecords(b.record)[1]) = <<"AND">>
          /\ ParentConnectorOf(NestedRecords(b.record)[2]) = <<"OR">>
          /\ b.container.Connector = <<"OR">>

----------------------------------------------------------------------------
(* C14: in every built curriculum, a Part whose required credit points in  *)
(* the document equal the curriculum's total credit points has             *)
(* CreditPointsRequired = 0 and every other Part keeps the value of the    *)
(* document; so no Part has CreditPointsRequired equal to a non-zero       *)
(* TotalCreditPoints.                                                      *)
C14_CreditNormalization ==
    Built =>
        LET total == parsed.curriculum.TotalCreditPoints IN
        /\ total = DocCredit(document)
        /\ Len(Parts) = Len(PartRecords)
        /\ \A i \in 1..Len(Parts) :
              /\ Parts[i].CreditPointsRequired =
                    IF DocCredit(PartRecords[i]) = total THEN 0
                    ELSE DocCredit(PartRecords[i])
              /\ Parts[i].CreditPointsRequired = total => total = 0

\* A curriculum of 12 credit points is built from a Part declared with 12
\* credit points and a Part declared with 6: the first is reset to 0, the
\* second keeps 6.
C14_Witness ==
    /\ Built
    /\ parsed.curriculum.TotalCreditPoints = 12
    /\ Len(Parts) = 2
    /\ DocCredit(PartRecords[1]) = 12 /\ Parts[1].CreditPointsRequired = 0
    /\ DocCredit(PartRecords[2]) = 6 /\ Parts[2].CreditPointsRequired = 6

----------------------------------------------------------------------------
(* C15: no Part of a built curriculum has both Containers and              *)
(* AcademicItems: a Part for which a container was parsed has no item, and *)
(* a Part for which none was parsed has the items of its "relationship"    *)
(* list.                                                                   *)
C15_PartExclusive ==
    Built =>
        \A i \in 1..Len(Parts) :
            /\ ~(Parts[i].Containers # <<>> /\ Parts[i].AcademicItems # <<>>)
            /\ Parts[i].Containers = <<>> =>
                  Len(Parts[i].AcademicItems)
                    = Len(Records(Entries(PartRecords[i].fields, "relationship")))

\* A Part whose record holds both a container record and an item record is
\* built with the container and without the item.
C15_Witness ==
    /\ Built
    /\ \E i \in 1..Len(Parts) :
          /\ Records(Entries(PartRecords[i].fields, "relationship")) # <<>>
          /\ NestedRecords(PartRecords[i]) # <<>>
          /\ Parts[i].Containers # <<>>
          /\ Parts[i].AcademicItems = <<>>

----------------------------------------------------------------------------
(* C16: no Container of a built curriculum, at any depth, has both         *)
(* Containers and AcademicItems.                                           *)
C16_ContainerExclusive ==
    Built =>
        \A b \in BuiltContainers :
            ~(b.container.Containers # <<>> /\ b.container.AcademicItems # <<>>)

----------------------------------------------------------------------------
(* C17: for every raw document ParseCurriculum returns a Curriculum or an  *)
(* error and never aborts, whatever entries are not records and whatever   *)
(* sub-fields the records lack.                                            *)
C17_NeverAborts ==
    parsed # NotParsed => parsed.outcome \in {"ok", "error"}

----------------------------------------------------------------------------
(* C18: when the document's total credit points, or the required credit    *)
(* points of one of its Part records, is a string that is not a number,    *)
(* what ParseCurriculum returns is an error.                               *)
NotANumber(v) ==
    /\ v.kind = "string"
    /\ \/ v.chars = <<>>
       \/ \E i \in 1..Len(v.chars) : ~IsDigit(v.chars[i])

C18_NonNumericCredits ==
    (/\ parsed.outcome \in {"ok", "error"}
     /\ \/ NotANumber(Field(GetTypedValue(document), "credit_points"))
        \/ \E i \in 1..Len(PartRecords) :
              NotANumber(Field(PartRecords[i].fields, "credit_points"))) =>
        parsed.outcome = "error"

----------------------------------------------------------------------------
(* The compressed forest against the raw one.                              *)

RECURSIVE SameStructure(_, _)
\* The compressed containers are the raw containers one for one, each with
\* the raw parent-connector label as Relationship, one unit per raw
\* relationship entry with the same code in the same order, and nested
\* containers that are the raw nested containers in the same way.
SameStructure(containers, compressed) ==
    /\ Len(compressed) = Len(containers)
    /\ \A i \in 1..Len(containers) :
          /\ compressed[i].Relationship = containers[i].ParentConnector.Label
          /\ Len(compressed[i].Units) = Len(containers[i].Relationships)
          /\ \A k \in 1..Len(containers[i].Relationships) :
                compressed[i].Units[k].UnitCode
                    = containers[i].Relationships[k].AcademicItemCode
          /\ SameStructure(containers[i].Containers, compressed[i].Containers)

----------------------------------------------------------------------------
(* C19: compressRequisites gives one CompressedRequisite per raw requisite *)
(* in the same order, with the raw requisite-type label; each raw          *)
(* container maps to one CompressedContainer at the same position and      *)
(* depth, its Relationship the raw parent-connector label verbatim; each   *)
(* raw relationship entry maps to one CompressedUnit with the same code,   *)
(* in the same order.                                                      *)
C19_CompressPreserves ==
    call.op = "compressRequisites" =>
        /\ Len(unitData.Requisites) = Len(document.requisites)
        /\ \A i \in 1..Len(document.requisites) :
              /\ unitData.Requisites[i].RequisiteType
                    = document.requisites[i].RequisiteType.Label
              /\ SameStructure(document.requisites[i].Containers,
                               unitData.Requisites[i].Containers)

\* A section of two requisites is compressed, the second holding a
\* container with an empty parent-connector label, two relationship entries
\* and a nested container.
C19_Witness ==
    /\ call.op = "compressRequisites"
    /\ Len(unitData.Requisites) = 2
    /\ unitData.Requisites[1].RequisiteType # unitData.Requisites[2].RequisiteType
    /\ Len(unitData.Requisites[2].Containers) = 1
    /\ unitData.Requisites[2].Containers[1].Relationship = ""
    /\ AllCodes(unitData.Requisites[2].Containers[1].Units) = <<"FIT2004", "FIT1045">>
    /\ Len(unitData.Requisites[2].Containers[1].Containers) = 1

----------------------------------------------------------------------------
(* The outcome of a check against the set of completed codes.              *)

RECURSIVE ForestCodes(_)
\* The unit codes of the containers and of every container below.
ForestCodes(containers) ==
    UNION { { containers[i].Units[k].UnitCode : k \in 1..Len(containers[i].Units) }
            \cup ForestCodes(containers[i].Containers) : i \in 1..Len(containers) }

\* The unit codes of the unit's requisites.
RequisiteCodes ==
    UNION { ForestCodes(unitData.Requisites[i].Containers) :
            i \in 1..Len(unitData.Requisites) }

RECURSIVE ListOf(_)
\* One list of the codes of a set, each once, as bare completed units.
ListOf(codes) ==
    IF codes = {} THEN <<>>
    ELSE LET code == CHOOSE c \in codes : TRUE IN
         <<CompletedUnit(code)>> \o ListOf(codes \ {code})

RECURSIVE Renumbered(_)
\* The containers with every UnitNumber blanked.
Renumbered(containers) ==
    [i \in 1..Len(containers) |->
        [Relationship |-> containers[i].Relationship,
         Units |-> [k \in 1..Len(containers[i].Units) |->
                      [UnitCode |-> containers[i].Units[k].UnitCode,
                       UnitNumber |-> ""]],
         Containers |-> Renumbered(containers[i].Containers)]]

RenumberedData ==
    UnitData([i \in 1..Len(unitData.Requisites) |->
                CompressedRequisite(unitData.Requisites[i].RequisiteType,
                                    Renumbered(unitData.Requisites[i].Containers))])

----------------------------------------------------------------------------
(* C20: what CheckRequisites returns is what it returns for the list that  *)
(* holds, once each and with no other field, the completed codes that are  *)
(* exactly the code of a unit of the requisites, when every UnitNumber is  *)
(* blanked: the order of the completed units, their repetition, their      *)
(* other fields, codes that differ from a unit's code in case only, and    *)
(* the UnitNumbers do not count.                                           *)
C20_CodesOnly ==
    call.op = "CheckRequisites" =>
        LET r == CheckRequisites(RenumberedData,
                                 ListOf(CompletedCodes \cap RequisiteCodes))
        IN  /\ call.met = r.met
            /\ call.messages = r.messages
            /\ call.err = r.err

\* The request lists FIT2004 twice, with different names, around a
\* lower-case fit1045, for a unit that requires FIT1045 and FIT2004: the
\* answer is "Requires: FIT1045".
C20_Witness ==
    /\ call.op = "CheckRequisites"
    /\ Len(completedUnits) = 3
    /\ completedUnits[1].Code = "FIT2004"
    /\ completedUnits[2].Code = "fit1045"
    /\ completedUnits[3].Code = "FIT2004"
    /\ completedUnits[1].Name # completedUnits[3].Name
    /\ RequisiteCodes = {"FIT1045", "FIT2004"}
    /\ call.messages = << <<"Requires: ", "FIT1045">> >>

----------------------------------------------------------------------------
(* C21: ParseCurriculum leaves the raw document it is given unchanged:     *)
(* after the call every record of the document has the keys and values it  *)
(* had before.                                                             *)
C21_DocumentUnchanged ==
    [][(parsed = NotParsed /\ parsed' # NotParsed) => document' = document]_vars

----------------------------------------------------------------------------
(* utils.ExtractUnitNumber character by character.  A unit code is a       *)
(* sequence of one-character strings; the loop appends every character     *)
(* between '0' and '9' to the number it has so far.                        *)

MaxCodeLen == 4
CodeChars == {"F", "T", "3", "1", "7", "-"}

RECURSIVE ExtractUnitNumberFrom(_, _)

ExtractUnitNumberPrepending(code, number) ==
    IF code = <<>> THEN number
    ELSE ExtractUnitNumberFrom(Tail(code),
            IF IsDigit(Head(code)) THEN <<Head(code)>> \o number ELSE number)

\* The loop from the characters still to read and the number so far.
ExtractUnitNumberFrom(code, number) ==
    IF code = <<>> THEN number
    ELSE ExtractUnitNumberFrom(Tail(code),
            IF IsDigit(Head(code)) THEN Append(number, Head(code)) ELSE number)

ExtractUnitNumberOf(code) == ExtractUnitNumberFrom(code, <<>>)

UnitCodeText(chars) == [kind |-> "code", chars |-> chars]
UnitNumberText(code, number) ==
    [outcome |-> "number", code |-> code, number |-> number]

InitX ==
    /\ unitData = UnitData(<<>>)
    /\ completedUnits = <<>>
    /\ call = NoCall
    /\ document = UnitCodeText(<<>>)
    /\ parsed = NotParsed
    /\ InitServer

\* The unit code has one more character.
AddCodeChar ==
    /\ call = NoCall
    /\ Len(document.chars) < MaxCodeLen
    /\ \E ch \in CodeChars : document' = UnitCodeText(Append(document.chars, ch))
    /\ UNCHANGED <<unitData, completedUnits, call, parsed, serverVars>>

ExtractUnitNumberCall ==
    /\ call = NoCall
    /\ parsed' = UnitNumberText(document.chars, ExtractUnitNumberOf(document.chars))
    /\ call' = Call("ExtractUnitNumber", NoContainers, FALSE,
                    Result(TRUE, <<>>, NoError))
    /\ UNCHANGED <<unitData, completedUnits, document, serverVars>>

NextX ==
    \/ AddCodeChar
    \/ ExtractUnitNumberCall

SpecX == InitX /\ [][NextX]_vars

(* C22: ExtractUnitNumber returns exactly the characters '0'..'9' of the   *)
(* code, in the order they occur, and nothing else (the empty string for a *)
(* code without digits); applying it to its own result changes nothing.    *)
C22_DigitsInOrder ==
    parsed.outcome = "number" =>
        /\ parsed.number = SelectSeq(parsed.code, IsDigit)
        /\ ExtractUnitNumberOf(parsed.number) = parsed.number

C22_Witness ==
    /\ parsed.outcome = "number"
    /\ parsed.code = <<"F", "3", "T", "1">>
    /\ parsed.number = <<"3", "1">>

----------------------------------------------------------------------------
(* C23, as stated: for an AND prerequisite container with uncompleted      *)
(* direct units and unsatisfied nested containers, the returned list       *)
(* starts with the single "Requires: " message and the messages of the     *)
(* nested containers follow it in container order.                         *)
C23_AsStated ==
    LET missing == Select(Evaluated.Units, CompletedCodes, FALSE)
        nested == NestedMessages(Evaluated.Containers, completedUnits, FALSE)
    IN  (LogicCalled("AND", FALSE) /\ missing # <<>> /\ nested # <<>>) =>
            call.messages =
                <<Message("Requires: ", missing, " and ")>> \o nested

(* C23, amended: for such a container the returned list holds the messages *)
(* of the unsatisfied nested containers first, in container order, and     *)
(* ends with the single "Requires: " message for the direct units.         *)
C23_NestedThenRequires ==
    LET missing == Select(Evaluated.Units, CompletedCodes, FALSE)
        nested == NestedMessages(Evaluated.Containers, completedUnits, FALSE)
    IN  (LogicCalled("AND", FALSE) /\ missing # <<>> /\ nested # <<>>) =>
            /\ ~call.met
            /\ call.messages =
                  nested \o <<Message("Requires: ", missing, " and ")>>

\* AND([FIT1045], AND([FIT2004])) with nothing completed.
C23_Witness ==
    /\ LogicCalled("AND", FALSE)
    /\ AllCodes(Evaluated.Units) = <<"FIT1045">>
    /\ Len(Evaluated.Containers) = 1
    /\ CompletedCodes = {}
    /\ call.messages = << <<"Requires: ", "FIT2004">>, <<"Requires: ", "FIT1045">> >>

----------------------------------------------------------------------------
(* C24: every return without an error of CheckRequisites, checkContainer,  *)
(* checkAndLogic and checkOrLogic, in both modes, has the satisfied flag   *)
(* true iff its message list is empty: no negative verdict comes without   *)
(* a message, and no message comes with a positive verdict.                *)
C24_MetIffNoMessages ==
    (call.op \in {"CheckRequisites", "checkContainer", "checkContainerLogic"}
        /\ call.err = NoError) =>
        (call.met <=> call.messages = <<>>)

\* checkContainer on an OR prerequisite container with nested containers
\* only: the negative verdict rests on the nested containers' messages.
C24_Witness ==
    /\ call.op = "checkContainer"
    /\ ~call.isProhibition
    /\ Len(call.containers) = 1
    /\ call.containers[1].Relationship = "OR"
    /\ call.containers[1].Units = <<>>
    /\ call.containers[1].Containers # <<>>
    /\ call.err = NoError
    /\ ~call.met
    /\ call.messages # <<>>

----------------------------------------------------------------------------
RECURSIVE HoldsOrWithNested(_)
\* Some container of the forest, at any depth, is an OR container that has
\* a nested container and only AND and OR relationships below it.
HoldsOrWithNested(containers) ==
    \E i \in 1..Len(containers) :
        \/ /\ containers[i].Relationship = "OR"
           /\ containers[i].Containers # <<>>
           /\ AllKnown(containers[i])
        \/ HoldsOrWithNested(containers[i].Containers)

----------------------------------------------------------------------------
(* The check request end to end: UnitCheckHandler asks ScrapeAndCache for  *)
(* the unit, ScrapeAndCache asks the handbook cache first and scrapes on a *)
(* miss, storing what it scraped.  The cache holds JSON text: Store        *)
(* marshals the value it is given, and Retrieve unmarshals the text into   *)
(* an interface{}, which gives the generic decoded value and not the       *)
(* struct that was stored.  `unitData` is what units.Scrape gives for the  *)
(* unit's page.                                                            *)

RECURSIVE MarshalContainers(_)

MarshalUnit(unit) ==
    Obj([unit_code |-> Str(<<unit.UnitCode>>),
         unit_number |-> Str(<<unit.UnitNumber>>)])

\* json.Marshal of a CompressedContainer, decoded: "containers" is omitted
\* when empty, a nil slice is null.
MarshalContainer(container) ==
    Obj([k \in {"relationship", "units"}
               \cup (IF container.Containers # <<>> THEN {"containers"} ELSE {}) |->
            IF k = "relationship" THEN Str(<<container.Relationship>>)
            ELSE IF k = "units"
            THEN (IF container.Units = <<>> THEN Null
                  ELSE Arr([i \in 1..Len(container.Units) |->
                                MarshalUnit(container.Units[i])]))
            ELSE MarshalContainers(container.Containers)])

MarshalContainers(containers) ==
    Arr([i \in 1..Len(containers) |-> MarshalContainer(containers[i])])

MarshalRequisite(requisite) ==
    Obj([requisite_type |-> Str(<<requisite.RequisiteType>>),
         containers |-> IF requisite.Containers = <<>> THEN Null
                        ELSE MarshalContainers(requisite.Containers)])

\* What the cache gives back for a stored UnitData: json.Marshal of the
\* struct, then json.Unmarshal into an interface{}.
MarshalUnitData(data) ==
    Obj([requisites |-> IF data.Requisites = <<>> THEN Null
                        ELSE Arr([i \in 1..Len(data.Requisites) |->
                                    MarshalRequisite(data.Requisites[i])])])

\* A value of type interface{} with its dynamic type.
Typed(type, value) == [type |-> type, value |-> value]

\* The key of the unit's page in the cache.
BaseURL == "https://handbook.monash.edu/2025/units/FIT3175"

\* ScrapeAndCache: the cached value when there is one, else the scraped
\* one; visited tells whether the collector has fetched the page before,
\* in which case the visit is refused and the scrape fails.
ScrapeAndCache(baseURL, stored, scraped, visited) ==
    IF baseURL \in DOMAIN stored /\ stored[baseURL] # Null
    THEN [source |-> "cache", err |-> NoError,
          data |-> Typed("map[string]interface {}", stored[baseURL])]
    ELSE IF baseURL \in visited
    THEN [source |-> "scrape",
          err |-> <<"failed to extract JSON", "failed to visit URL">>,
          data |-> Typed("nil", Null)]
    ELSE [source |-> "scrape", err |-> NoError,
          data |-> Typed("units.UnitData", scraped)]

\* dbHandler.Store(databases.Handbook, key, data, ttl).
Store(stored, key, data) ==
    [k \in DOMAIN stored \cup {key} |->
        IF k = key THEN MarshalUnitData(data) ELSE stored[k]]

Response(source, completed, status, met, message, error) ==
    [source |-> source, completed |-> completed, status |-> status,
     met |-> met, message |-> message, error |-> error]

\* The response from what CheckRequisites returned.
CheckedResponse(source, completed, r) ==
    IF r.err # NoError
    THEN Response(source, completed, 500, FALSE, <<>>, r.err)
    ELSE Response(source, completed, 200, r.met, r.messages, NoError)

\* UnitCheckHandler from what ScrapeAndCache returned.
UnitCheckHandler(got, completed) ==
    IF got.err # NoError
    THEN Response(got.source, completed, 500, FALSE, <<>>, got.err)
    ELSE IF got.data.type # "units.UnitData"
    THEN Response(got.source, completed, 500, FALSE, <<>>,
                  <<"failed to cast scraped data to UnitData">>)
    ELSE CheckedResponse(got.source, completed,
                         CheckRequisites(got.data.value, completed))

\* Largest weight of the requisite list of the unit's page in SpecK.
MaxPageSize == 3

\* Largest number of check requests in SpecK.
MaxRequests == 2

\* A check request for the unit: the handler runs to its response.  Storing
\* the scraped value may fail; the failure is only logged.
UnitCheckRequest ==
    /\ Len(responses) < MaxRequests
    /\ \E completed \in CompletedLists, saved \in BOOLEAN :
          LET got == ScrapeAndCache(BaseURL, cache, unitData, collector.visited)
              scraped == got.source = "scrape" /\ got.err = NoError
          IN
          /\ responses' = Append(responses, UnitCheckHandler(got, completed))
          /\ cache' = IF scraped /\ saved
                      THEN Store(cache, BaseURL, unitData) ELSE cache
          /\ collector' = IF got.source = "scrape"
                          THEN [collector EXCEPT !.visited = @ \cup {BaseURL}]
                          ELSE collector
          /\ completedUnits' = completed
          /\ call' = IF scraped
                     THEN Call("CheckRequisites", NoContainers, FALSE,
                               CheckRequisites(unitData, completed))
                     ELSE call
    /\ UNCHANGED <<unitData, document, parsed, requests>>

NextK ==
    \/ AddRequisite(MaxPageSize)
    \/ AddContainer(Relationships, 0, MaxPageSize, MaxPageSize)
    \/ AddUnit(MaxPageSize, MaxPageSize)
    \/ UnitCheckRequest

SpecK == Init /\ [][NextK]_vars

(* C26: the outcome of a check request does not depend on where            *)
(* ScrapeAndCache got the unit from: a request served from the cache gets  *)
(* the status, met_requisites and message that an earlier request with the *)
(* same completed units got when the unit was scraped.                     *)
C26_CacheTransparent ==
    \A i, j \in 1..Len(responses) :
        (/\ i < j
         /\ responses[i].source = "scrape"
         /\ responses[j].source = "cache"
         /\ responses[i].completed = responses[j].completed) =>
            /\ responses[j].status = responses[i].status
            /\ responses[j].met = responses[i].met
            /\ responses[j].message = responses[i].message

----------------------------------------------------------------------------
\* The list without its i-th entry.
Without(list, i) ==
    [k \in 1..(Len(list) - 1) |-> IF k < i THEN list[k] ELSE list[k + 1]]

(* C27: a requisite whose RequisiteType is neither "Prerequisite" nor      *)
(* "Prohibition" has no effect on CheckRequisites, whatever its containers *)
(* hold, a container of unknown Relationship included: the call returns    *)
(* what it returns for the unit without that requisite.                    *)
C27_OtherTypesIgnored ==
    call.op = "CheckRequisites" =>
        \A i \in 1..Len(unitData.Requisites) :
            ~Checked(unitData.Requisites[i]) =>
                LET r == CheckRequisites(
                            UnitData(Without(unitData.Requisites, i)),
                            completedUnits)
                IN  /\ call.met = r.met
                    /\ call.messages = r.messages
                    /\ call.err = r.err

\* A Corequisite with a container of unknown relationship and a unit that
\* is not completed, next to a Prerequisite that is not satisfied.
C27_Witness ==
    /\ call.op = "CheckRequisites"
    /\ Len(unitData.Requisites) = 2
    /\ unitData.Requisites[1].RequisiteType = "Corequisite"
    /\ Len(unitData.Requisites[1].Containers) = 1
    /\ unitData.Requisites[1].Containers[1].Relationship = "XOR"
    /\ unitData.Requisites[2].RequisiteType = "Prerequisite"
    /\ call.err = NoError
    /\ ~call.met
    /\ Len(call.messages) = 1

----------------------------------------------------------------------------
(* units.Scrape on a fetched page.  `document` is what the page holds at   *)
(* props.pageProps.pageContent.requisites, as a decoded JSON value.        *)
(* requisites() keeps the records of that array, marshals them and hands   *)
(* the text to compressRequisites, whose json.Unmarshal into []Requisite   *)
(* fails when a value has not the JSON type of the field it is decoded     *)
(* into; null and missing keys leave the zero value.                       *)

\* A one-word JSON string as the Go string the model uses for labels.
GoString(chars) == IF chars = <<>> THEN "" ELSE chars[1]

Decoded(err, value) == [err |-> err, value |-> value]

\* Decoding into a string field.
DecodeString(v) ==
    IF v.kind \in {"absent", "nil"} THEN Decoded(FALSE, "")
    ELSE IF v.kind = "string" THEN Decoded(FALSE, GoString(v.chars))
    ELSE Decoded(TRUE, "")

\* Decoding into a Connector or a RequisiteType: {label, value}.
DecodeConnector(v) ==
    IF v.kind \in {"absent", "nil"} THEN Decoded(FALSE, Connector("", ""))
    ELSE IF v.kind = "object"
    THEN LET label == DecodeString(Field(v.fields, "label"))
             value == DecodeString(Field(v.fields, "value"))
         IN  Decoded(label.err \/ value.err, Connector(label.value, value.value))
    ELSE Decoded(TRUE, Connector("", ""))

DecodeRelationship(v) ==
    IF v.kind = "nil" THEN Decoded(FALSE, Relationship(""))
    ELSE IF v.kind = "object"
    THEN LET code == DecodeString(Field(v.fields, "academic_item_code"))
         IN  Decoded(code.err, Relationship(code.value))
    ELSE Decoded(TRUE, Relationship(""))

DecodeRelationships(v) ==
    IF v.kind \in {"absent", "nil"} THEN Decoded(FALSE, <<>>)
    ELSE IF v.kind = "array"
    THEN LET each == [i \in 1..Len(v.elems) |-> DecodeRelationship(v.elems[i])]
         IN  Decoded(\E i \in 1..Len(each) : each[i].err,
                     [i \in 1..Len(each) |-> each[i].value])
    ELSE Decoded(TRUE, <<>>)

RECURSIVE DecodeContainers(_)

\* Decoding into a Container: parent_connector, relationships, containers.
DecodeContainer(v) ==
    IF v.kind = "nil" THEN Decoded(FALSE, Container(Connector("", "")))
    ELSE IF v.kind = "object"
    THEN LET connector == DecodeConnector(Field(v.fields, "parent_connector"))
             relationships == DecodeRelationships(Field(v.fields, "relationships"))
             nested == DecodeContainers(Field(v.fields, "containers"))
         IN  Decoded(connector.err \/ relationships.err \/ nested.err,
                     [Container(connector.value) EXCEPT
                        !.Relationships = relationships.value,
                        !.Containers = nested.value])
    ELSE Decoded(TRUE, Container(Connector("", "")))

DecodeContainers(v) ==
    IF v.kind \in {"absent", "nil"} THEN Decoded(FALSE, <<>>)
    ELSE IF v.kind = "array"
    THEN LET each == [i \in 1..Len(v.elems) |-> DecodeContainer(v.elems[i])]
         IN  Decoded(\E i \in 1..Len(each) : each[i].err,
                     [i \in 1..Len(each) |-> each[i].value])
    ELSE Decoded(TRUE, <<>>)

\* Decoding into a Requisite: requisite_type and container.
DecodeRequisite(v) ==
    LET type == DecodeConnector(Field(v.fields, "requisite_type"))
        containers == DecodeContainers(Field(v.fields, "container"))
    IN  Decoded(type.err \/ containers.err,
                [Requisite(type.value) EXCEPT !.Containers = containers.value])

\* json.Unmarshal(data, &requisites) on the marshalled records.
Unmarshal(records) ==
    LET each == [i \in 1..Len(records) |-> DecodeRequisite(records[i])]
    IN  Decoded(\E i \in 1..Len(each) : each[i].err,
                [i \in 1..Len(each) |-> each[i].value])

\* utils.GetTypedValue[[]map[string]interface{}]: the records of the array
\* at the path; nil when the path is missing or holds no array.
GetTypedRecords(value) ==
    IF value.kind = "array"
    THEN SelectSeq(value.elems, LAMBDA item : item.kind = "object")
    ELSE <<>>

\* requisites() as if a failed decoding still gave what was decoded.
requisitesSectionLenient(value) ==
    compressRequisites(Unmarshal(GetTypedRecords(value)).value)

\* requisites(): nil when compressRequisites returns an error.
requisitesSection(value) ==
    LET decoded == Unmarshal(GetTypedRecords(value))
    IN  IF decoded.err THEN <<>> ELSE compressRequisites(decoded.value)

\* What units.Scrape returns, with whether the compression failed.
Scraped(failed, err) == [outcome |-> "scraped", failed |-> failed, err |-> err]

\* Values of a record's requisite_type, well-typed or not.
RequisiteTypeValues ==
    { Obj([label |-> Str(<<t>>), value |-> Str(<<"v">>)]) :
        t \in {"Prerequisite", "Prohibition"} }
    \cup { Str(<<"Prerequisite">>), Obj([label |-> Num(1)]) }

UnitRecord(code) == Obj([academic_item_code |-> code])

ContainerRecord(label, relationships) ==
    Obj([parent_connector |-> Obj([label |-> Str(<<label>>)]),
         relationships |-> relationships])

\* Values of a record's container list, well-typed or not.
ContainerValues ==
    { Null, Str(<<"none">>),
      Arr(<<ContainerRecord("AND", Arr(<<UnitRecord(Str(<<"FIT1045">>))>>))>>),
      Arr(<<ContainerRecord("OR", Arr(<<UnitRecord(Str(<<"FIT1045">>)),
                                       UnitRecord(Str(<<"FIT2004">>))>>))>>),
      Arr(<<ContainerRecord("AND", Arr(<<UnitRecord(Num(1045))>>))>>),
      Arr(<<ContainerRecord("AND", Obj([academic_item_code |-> Str(<<"FIT1045">>)]))>>),
      Arr(<<Obj([parent_connector |-> Obj([label |-> Str(<<"AND">>)]),
                 relationships |-> Arr(<<UnitRecord(Str(<<"FIT2004">>))>>),
                 containers |-> Arr(<<Str(<<"FIT1045">>)>>)])>>) }

\* Entries of the requisites array: records, and one that is no record.
SectionEntries ==
    { Obj([requisite_type |-> t, container |-> c]) :
        t \in RequisiteTypeValues, c \in ContainerValues }
    \cup { Str(<<"requisite">>) }

\* Largest number of entries of the requisites array in SpecS.
MaxSectionLen == 2

InitS ==
    /\ unitData = UnitData(<<>>)
    /\ completedUnits = <<>>
    /\ call = NoCall
    /\ document \in {Absent, Null, Str(<<"none">>), Arr(<<>>)}
    /\ parsed = NotParsed
    /\ InitServer

\* The requisites array of the page holds one more entry.
AddSectionEntry ==
    /\ parsed = NotParsed
    /\ document.kind = "array"
    /\ Len(document.elems) < MaxSectionLen
    /\ \E entry \in SectionEntries :
          document' = Arr(Append(document.elems, entry))
    /\ UNCHANGED <<unitData, completedUnits, call, parsed, serverVars>>

\* units.Scrape(rawJSON, baseURL): the requisites of the unit it returns.
ScrapeCall ==
    /\ parsed = NotParsed
    /\ unitData' = UnitData(requisitesSection(document))
    /\ parsed' = Scraped(Unmarshal(GetTypedRecords(document)).err, NoError)
    /\ UNCHANGED <<completedUnits, call, document, serverVars>>

\* CheckRequisites on the unit that was scraped.
CheckScrapedCall ==
    /\ parsed # NotParsed
    /\ call = NoCall
    /\ \E completed \in CompletedLists :
          /\ completedUnits' = completed
          /\ call' = Call("CheckRequisites", NoContainers, FALSE,
                          CheckRequisites(unitData, completed))
    /\ UNCHANGED <<unitData, document, parsed, serverVars>>

NextS ==
    \/ AddSectionEntry
    \/ ScrapeCall
    \/ CheckScrapedCall

SpecS == InitS /\ [][NextS]_vars

(* C28: when the compression of the page's requisite section fails,        *)
(* units.Scrape reports no error and the unit it returns has no            *)
(* requisites, so that CheckRequisites on that unit returns satisfied =    *)
(* true with no message and no error, whatever the completed units are.    *)
C28_FailedCompression ==
    (parsed.outcome = "scraped" /\ parsed.failed) =>
        /\ parsed.err = NoError
        /\ unitData.Requisites = <<>>
        /\ call.op = "CheckRequisites" =>
              (call.met /\ call.messages = <<>> /\ call.err = NoError)

\* The section holds a well-formed Prerequisite on FIT1045 and a record
\* whose requisite_type is a string: the decoding fails and the check
\* passes with nothing completed.
C28_Witness ==
    /\ parsed.outcome = "scraped" /\ parsed.failed
    /\ Len(document.elems) = 2
    /\ document.elems[1].kind = "object"
    /\ LET first == Unmarshal(<<document.elems[1]>>) IN
       /\ ~first.err
       /\ first.value[1].RequisiteType.Label = "Prerequisite"
       /\ Len(first.value[1].Containers) = 1
    /\ call.op = "CheckRequisites"
    /\ completedUnits = <<>>
    /\ call.met

----------------------------------------------------------------------------
\* The completed lists that hold every code of the list of the call.
LargerLists ==
    { completed \in CompletedLists :
        CompletedCodes \subseteq { completed[i].Code : i \in 1..Len(completed) } }

\* Every requisite of the unit is of the given type and holds AND and OR
\* containers only.
OnlyOfType(type) ==
    \A i \in 1..Len(unitData.Requisites) :
        /\ unitData.Requisites[i].RequisiteType = type
        /\ \A j \in 1..Len(unitData.Requisites[i].Containers) :
              AllKnown(unitData.Requisites[i].Containers[j])

(* C29: CheckRequisites is monotone in the completed set.  For a unit with *)
(* Prerequisite requisites only (AND and OR containers), satisfied for a   *)
(* completed set means satisfied for every larger one; for a unit with     *)
(* Prohibition requisites only, violated for a completed set means         *)
(* violated for every larger one.                                          *)
C29_Monotone ==
    call.op = "CheckRequisites" =>
        /\ (OnlyOfType("Prerequisite") /\ call.met) =>
              \A larger \in LargerLists : CheckRequisites(unitData, larger).met
        /\ (OnlyOfType("Prohibition") /\ ~call.met) =>
              \A larger \in LargerLists : ~CheckRequisites(unitData, larger).met

\* OR([FIT1045], AND([FIT2004])) as a prerequisite is satisfied with
\* FIT2004 alone, and there is a larger list to compare with.
C29_Witness ==
    /\ call.op = "CheckRequisites"
    /\ OnlyOfType("Prerequisite")
    /\ Len(unitData.Requisites) = 1
    /\ Len(unitData.Requisites[1].Containers) = 1
    /\ unitData.Requisites[1].Containers[1].Relationship = "OR"
    /\ unitData.Requisites[1].Containers[1].Containers # <<>>
    /\ CompletedCodes = {"FIT2004"}
    /\ call.met
    /\ \E larger \in LargerLists : Len(larger) = 2

----------------------------------------------------------------------------
(* Concurrent requests.  The router runs each request in a goroutine of    *)
(* its own, and every handler is given the one collector that StartServer  *)
(* created.  ScrapeAndCache and ExtractRawJSON are split at the points     *)
(* where another request may run in between: the cache lookup, OnHTML      *)
(* (the callback is appended to the collector's list), Visit (the page is  *)
(* fetched and every registered callback whose selector matches is run on  *)
(* it), OnHTMLDetach (the first callback registered for the selector is    *)
(* removed), and the return with the store.  A callback is the closure of  *)
(* the call that registered it and writes that call's parsedData.          *)

\* The unit pages of the handbook.
UnitPages == <<"FIT1045", "FIT2004", "FIT3175">>

UnitURL(code) == <<"https://handbook.monash.edu/2025/units/", code>>

\* The __NEXT_DATA__ document of the page at url: a unit that requires the
\* unit before it in UnitPages.
PageDocument(url) ==
    [kind |-> "page", url |-> url,
     requisites |-> <<CompressedRequisite("Prerequisite",
                        <<[CompressedContainer("AND") EXCEPT
                             !.Units = <<CompressedUnit(url[2])>>]>>)>>]

\* units.Scrape on a fetched document.
ScrapePage(rawJSON) == UnitData(rawJSON.requisites)

\* A request in ScrapeAndCache: where it is, its URL, the parsedData of its
\* ExtractRawJSON call, the error of its Visit and what it returned.
Request(pc, url, parsedData, err, data) ==
    [pc |-> pc, url |-> url, parsedData |-> parsedData, err |-> err,
     data |-> data]

\* Largest number of requests in SpecW.
MaxConcurrent == 3

\* A request for a page that no earlier request asked for arrives.
ReceiveRequest ==
    /\ Len(requests) < MaxConcurrent
    /\ Len(requests) < Len(UnitPages)
    /\ requests' = Append(requests,
            Request("Retrieve", UnitURL(UnitPages[Len(requests) + 1]),
                    Null, NoError, Null))
    /\ UNCHANGED <<unitData, completedUnits, call, document, parsed,
                   cache, collector, responses>>

\* dbHandler.Retrieve: a cached value is returned at once.
RetrieveCached(r) ==
    /\ requests[r].pc = "Retrieve"
    /\ requests' = [requests EXCEPT ![r] =
            IF @.url \in DOMAIN cache
            THEN [@ EXCEPT !.pc = "done", !.data = cache[@.url]]
            ELSE [@ EXCEPT !.pc = "OnHTML"]]
    /\ UNCHANGED <<unitData, completedUnits, call, document, parsed,
                   cache, collector, responses>>

\* c.OnHTML("script#__NEXT_DATA__", func...).
OnHTML(r) ==
    /\ requests[r].pc = "OnHTML"
    /\ collector' = [collector EXCEPT !.htmlCallbacks = Append(@, r)]
    /\ requests' = [requests EXCEPT ![r].pc = "Visit"]
    /\ UNCHANGED <<unitData, completedUnits, call, document, parsed,
                   cache, responses>>

\* c.Visit(URL): the page is fetched and every registered callback runs on
\* its script element, each writing the parsedData of its own call.
Visit(r) ==
    /\ requests[r].pc = "Visit"
    /\ LET url == requests[r].url
           fired == { collector.htmlCallbacks[i] :
                        i \in 1..Len(collector.htmlCallbacks) }
       IN  IF url \in collector.visited
           THEN /\ requests' = [requests EXCEPT
                        ![r] = [@ EXCEPT !.pc = "OnHTMLDetach",
                                         !.err = <<"failed to visit URL">>]]
                /\ UNCHANGED collector
           ELSE /\ requests' = [q \in 1..Len(requests) |->
                        LET written ==
                                IF q \in fired
                                THEN [requests[q] EXCEPT
                                        !.parsedData = PageDocument(url)]
                                ELSE requests[q]
                        IN  IF q = r THEN [written EXCEPT !.pc = "OnHTMLDetach"]
                            ELSE written]
                /\ collector' = [collector EXCEPT !.visited = @ \cup {url}]
    /\ UNCHANGED <<unitData, completedUnits, call, document, parsed,
                   cache, responses>>

\* c.OnHTMLDetach("script#__NEXT_DATA__"): every callback of the list was
\* registered for this selector, so the first of the list is removed.
OnHTMLDetach(r) ==
    /\ requests[r].pc = "OnHTMLDetach"
    /\ collector' = [collector EXCEPT !.htmlCallbacks =
                        IF @ = <<>> THEN @ ELSE Tail(@)]
    /\ requests' = [requests EXCEPT ![r].pc = "return"]
    /\ UNCHANGED <<unitData, completedUnits, call, document, parsed,
                   cache, responses>>

\* The rest of ExtractRawJSON and of ScrapeAndCache: an error when the visit
\* failed or nothing was parsed; else the document is scraped and the result
\* stored under the URL of the request.
ReturnScraped(r) ==
    /\ requests[r].pc = "return"
    /\ LET q == requests[r]
           err == IF q.err # NoError
                  THEN Wrap("failed to extract JSON", q.err)
                  ELSE IF q.parsedData = Null
                  THEN <<"failed to extract JSON",
                         "failed to find JSON data in the HTML">>
                  ELSE NoError
       IN  IF err # NoError
           THEN /\ requests' = [requests EXCEPT
                        ![r] = [@ EXCEPT !.pc = "done", !.err = err]]
                /\ UNCHANGED cache
           ELSE /\ requests' = [requests EXCEPT
                        ![r] = [@ EXCEPT !.pc = "done",
                                         !.data = q.parsedData]]
                /\ cache' = Store(cache, q.url, ScrapePage(q.parsedData))
    /\ UNCHANGED <<unitData, completedUnits, call, document, parsed,
                   collector, responses>>

NextW ==
    \/ ReceiveRequest
    \/ \E r \in 1..Len(requests) : RetrieveCached(r)
    \/ \E r \in 1..Len(requests) : OnHTML(r)
    \/ \E r \in 1..Len(requests) : Visit(r)
    \/ \E r \in 1..Len(requests) : OnHTMLDetach(r)
    \/ \E r \in 1..Len(requests) : ReturnScraped(r)

SpecW == Init /\ [][NextW]_vars

(* C30: when requests for different URLs run concurrently on the shared    *)
(* collector, the callback of a request is fired by its own visit only and *)
(* stays registered until the request detaches it, each ExtractRawJSON     *)
(* call returns the document of its own URL, and the cache holds under     *)
(* each key the data of that key's URL.                                    *)
C30_RequestsIsolated ==
    /\ \A r \in 1..Len(requests) :
          /\ requests[r].parsedData \in {Null, PageDocument(requests[r].url)}
          /\ requests[r].pc \in {"Visit", "OnHTMLDetach"} =>
                \E i \in 1..Len(collector.htmlCallbacks) :
                    collector.htmlCallbacks[i] = r
          /\ (requests[r].pc = "done" /\ requests[r].err = NoError) =>
                requests[r].data \in { PageDocument(requests[r].url),
                                       MarshalUnitData(ScrapePage(
                                            PageDocument(requests[r].url))) }
    /\ \A url \in DOMAIN cache :
          cache[url] = MarshalUnitData(ScrapePage(PageDocument(url)))

====
